---- MODULE Spec2Model ----
(***************************************************************************)
(* Model of the three-contract T-Bill system:                              *)
(*   bt_bill_token  (Bill Ledger)   contracts/bt_bill_token/src/lib.rs     *)
(*   bingo_vault    (Series Engine) contracts/bingo_vault/src/lib.rs       *)
(*   repo_market    (Repo Market)   contracts/repo_market/src/lib.rs       *)
(* Every public entry point is one atomic action.  A call that returns Err *)
(* or traps in a nested invocation is rolled back by the host, so such a   *)
(* call changes nothing but the observation variable `last`.               *)
(* Calls that need require_auth() are modelled as made with that           *)
(* authorization; mint and burn perform no authorization at all, so their  *)
(* invoking party is an explicit input.                                    *)
(***************************************************************************)
EXTENDS Integers, FiniteSets, Sequences, TLC

\* ------------------------------------------------------------------------
\* Program constants
\* ------------------------------------------------------------------------
SCALE == 10000000
PAR_UNIT == 1 * SCALE
BASIS_POINTS == 10000

\* ------------------------------------------------------------------------
\* Bounds of the model
\* ------------------------------------------------------------------------
MaxTime == 2
MaxPositions == 1
MaxProtocolPositions == 2
MaxLedgerCalls == 1
MaxLedgerOnlyCalls == 3

\* Addresses
VAULT == "vault"
REPO == "repo"
TREASURY == "treasury"
Users == {"u1", "u2"}
Holders == Users \cup {REPO, TREASURY}
CashHolders == Users \cup {VAULT, TREASURY}
SeriesIds == {1, 2}
\* The series the specifications with a single series work on
CoreSeriesIds == {1}

\* Inputs offered to the entry points
\* <<issue_date, maturity_date, issue_price, cap_par, user_cap_par>>
SeriesParams ==
    { <<0, 2, 5000000, 4, 3>>,      \* valid
      <<1, 2, 10000000, 3, 3>>,     \* valid: price = PAR, user_cap = cap
      <<2, 2, 5000000, 4, 3>>,      \* maturity <= issue
      <<0, 2, 0, 4, 3>>,            \* price <= 0
      <<0, 2, 10000001, 4, 3>>,     \* price > PAR
      <<0, 2, 5000000, 0, 0>>,      \* cap <= 0
      <<0, 2, 5000000, 4, 0>>,      \* user_cap <= 0
      <<0, 2, 5000000, 3, 4>>,      \* user_cap > cap
      <<2, 1, 0, 0, 0>>,            \* every check fails
      <<0, 2, -1, -1, -2>> }        \* price and caps fail
\* The series offered next to the direct ledger calls
CoreSeriesParams == { <<0, 2, 5000000, 4, 3>>, <<2, 2, 5000000, 4, 3>> }
\* Series and clock values offered when only the price is queried
PriceParams ==
    { <<0, 3, 5000000, 4, 3>>, <<1, 4, 1, 4, 3>>, <<0, 2, 10000000, 4, 3>>,
      <<1000, 2000, 9800000, 4, 3>>, <<2, 3, 9999999, 4, 3>>, <<0, 7, 3333333, 4, 3>> }
PriceTimes == {0, 1, 2, 3, 4, 5, 7, 999, 1000, 1001, 1500, 1999, 2000, 2001}
\* Arguments offered to calculate_minted_par alone
MintPayAmounts == {-3, -1, 0, 1, 2, 3, 7, 19, 95, 100, 200, 214}
MintPrices == {-3, -1, 0, 1, 3, 7, 5000000, 7500000, 9500000, 9800000, 10000000}
\* Arguments offered to calculate_max_cash alone: collateral and mark price as
\* open_repo can pass them, the haircut as initialize can store it
MaxCashCollaterals == {1, 2, 3, 97, 100, 214}
MaxCashPrices == {5000000, 7500000, 9900000, 10000000}
MaxCashHaircuts == {0, 300, 5000, 10000, 15000}
\* Accounting records offered to calculate_available_for_lending alone
AccountingRecords ==
    [ total_subscriptions_collected : {0, 1, 2, 5}, total_par_minted : {0, 4},
      total_lent : {0, 1, 2, 7}, total_repo_revenue : {0, 1, 3},
      total_defaults : {0, 1} ]
PayAmounts == {0, 1, 2}
RedeemAmounts == {0, 1}
\* <<collateral_par, desired_cash_out, deadline>>
RepoRequests == { <<3, 1, 1>>, <<3, 2, 1>>, <<0, 1, 1>>, <<3, 1, 3>> }
\* Requests offered when the ledger is reached only through the vault and the repo market
ProtocolRepoRequests ==
    RepoRequests \cup { <<3, 1, 2>>, <<3, 2, 2>>, <<3, 0, 1>>, <<0, 1, 3>>, <<3, 3, 3>> }
LedgerAmounts == {0, 1, 2}
LedgerCallers == {"u2"}
\* Direct ledger calls offered next to the vault and the repo market
\* <<caller, to, amount>>, <<caller, from, amount>>, <<from, to, amount>>
CoreMints == { <<"u2", "u1", 1>> }
CoreBurns == { <<"u2", "u1", 0>>, <<"u2", REPO, 1>> }
CoreTransfers == { <<"u1", "u1", 1>>, <<"u1", "u2", 1>> }
Borrowers == {"u1"}
OperatorCandidates == {"u2"}
\* <<haircut_bps, spread_bps>> handed to RepoMarket::initialize
Configs == { <<300, 5000>>, <<300, -15000>> }
\* Cash held when lending starts with a funded treasury and a borrower able to
\* repay with the spread
RepoCash == [a \in CashHolders |-> IF a = VAULT THEN 0 ELSE IF a = TREASURY THEN 2
                                  ELSE IF a = "u1" THEN 4 ELSE 0]
\* <<collateral_par, desired_cash_out, deadline>> offered to open_repo there
RepoLoanRequests == { <<3, 2, 2>>, <<3, 1, 1>>, <<3, 3, 2>>, <<4, 1, 2>> }
InitialCash == [a \in CashHolders |-> IF a = VAULT THEN 0 ELSE IF a = TREASURY THEN 1 ELSE 2]

NoSeries == [status |-> "None"]

VARIABLES
    now,               \* env.ledger().timestamp()
    series,            \* vault DataKey::Series(id)
    user_pos,          \* vault DataKey::UserPosition(id, user).subscribed_par
    accounting,        \* vault DataKey::ProtocolAccounting
    balances,          \* ledger DataKey::Balance(id, holder), a partial map
    operators,         \* ledger DataKey::Operators(addr)
    cash,              \* stablecoin balances (payment rail)
    positions,         \* repo DataKey::Position(id)
    position_counter,  \* repo DataKey::PositionCounter
    haircut_bps,       \* repo DataKey::Haircut
    spread_bps,        \* repo DataKey::Spread
    vault_paused,      \* vault DataKey::Paused
    repo_paused,       \* repo DataKey::Paused
    mvp_series,        \* BingoSeries DataKey::Series(id)
    mvp_next_series_id,\* BingoSeries DataKey::NextSeriesId
    mvp_positions,     \* BingoSeries DataKey::UserPosition(id, user), stored keys only
    mvp_kyc,           \* BingoSeries DataKey::KYCVerified(user)
    mvp_cash,          \* balances of the USDC token used by BingoSeries
    mvp_redeems,       \* history: successful BingoSeries redeems per (id, user)
    ledger_minted,     \* history: cumulative amount minted per series
    ledger_burned,     \* history: cumulative amount burned per series
    redeemed,          \* history: cumulative amount burned by redeem per series
    ledger_calls,      \* history: number of successful direct ledger calls
    last               \* history: the last call and its outcome

vars == << now, series, user_pos, accounting, balances, operators, cash, positions,
           position_counter, haircut_bps, spread_bps, vault_paused, repo_paused,
           mvp_series, mvp_next_series_id, mvp_positions, mvp_kyc, mvp_cash, mvp_redeems,
           ledger_minted, ledger_burned, redeemed, ledger_calls, last >>

vaultVars == << series, user_pos, accounting >>
repoVars == << positions, position_counter, haircut_bps, spread_bps >>
histVars == << ledger_minted, ledger_burned, redeemed, ledger_calls >>
pauseVars == << vault_paused, repo_paused >>
mvpVars == << mvp_series, mvp_next_series_id, mvp_positions, mvp_kyc, mvp_cash, mvp_redeems >>

\* ------------------------------------------------------------------------
\* i128 helpers (Rust integer division truncates toward zero)
\* ------------------------------------------------------------------------
Abs(x) == IF x < 0 THEN -x ELSE x

TruncDiv(a, b) ==
    IF (a >= 0) = (b > 0) THEN Abs(a) \div Abs(b) ELSE -(Abs(a) \div Abs(b))

FloorDiv(a, b) == IF b > 0 THEN a \div b ELSE (-a) \div (-b)

None == [some |-> FALSE, v |-> 0]
Some(x) == [some |-> TRUE, v |-> x]

\* x \div 2^120 for x >= 0, taken in four steps of 2^30
I128Shift(x) == (((x \div 1073741824) \div 1073741824) \div 1073741824) \div 1073741824

\* i128::MIN <= x <= i128::MAX, that is -2^127 <= x < 2^127
FitsI128(x) == IF x >= 0 THEN I128Shift(x) < 128 ELSE I128Shift(-(x + 1)) < 128

\* checked_mul / checked_add / checked_sub: None on i128 overflow
checked_mul(a, b) == IF FitsI128(a * b) THEN Some(a * b) ELSE None
checked_add(a, b) == IF FitsI128(a + b) THEN Some(a + b) ELSE None
checked_sub(a, b) == IF FitsI128(a - b) THEN Some(a - b) ELSE None
\* checked_div: None on division by zero and on i128::MIN / -1
checked_div(a, b) ==
    IF b = 0 THEN None
    ELSE IF ~FitsI128(TruncDiv(a, b)) THEN None
    ELSE Some(TruncDiv(a, b))
\* The i128 that holds x modulo 2^128
WrapI128(x) == IF FitsI128(x) THEN x ELSE ((x + 2^127) % 2^128) - 2^127
\* The operators +, - and * of i128 applied with exact result x: beyond the range
\* of i128 they panic in a build with overflow checks and wrap in a build without
Arith(overflow_checks, x) ==
    IF FitsI128(x) THEN Some(x)
    ELSE IF overflow_checks THEN None
    ELSE Some(WrapI128(x))
\* The operator / of i128: panics on a zero divisor and on i128::MIN / -1 in
\* every build
Div(a, b) ==
    IF b = 0 THEN None
    ELSE IF ~FitsI128(TruncDiv(a, b)) THEN None
    ELSE Some(TruncDiv(a, b))
\* Option::and_then / the ? operator
AndThen(o, F(_)) == IF o.some THEN F(o.v) ELSE None


\* ------------------------------------------------------------------------
\* Pricing engine (bingo_vault/src/pricing.rs)
\* ------------------------------------------------------------------------
\* Mutant: the issue price returned at and after maturity instead of PAR
calculate_current_price_issueAtMaturity(s, current_time) ==
    IF current_time <= s.issue_date THEN s.issue_price
    ELSE IF current_time >= s.maturity_date THEN s.issue_price
    ELSE LET elapsed == current_time - s.issue_date
             total_duration == s.maturity_date - s.issue_date
             price_delta == PAR_UNIT - s.issue_price
             div_duration(v) == checked_div(v, total_duration)
             accreted == AndThen(checked_mul(price_delta, elapsed), div_duration)
         IN s.issue_price + (IF accreted.some THEN accreted.v ELSE 0)

\* Mutant: the elapsed time counted from 0 instead of from the issue date
calculate_current_price_elapsedFromZero(s, current_time) ==
    IF current_time <= s.issue_date THEN s.issue_price
    ELSE IF current_time >= s.maturity_date THEN PAR_UNIT
    ELSE LET elapsed == current_time
             total_duration == s.maturity_date - s.issue_date
             price_delta == PAR_UNIT - s.issue_price
             div_duration(v) == checked_div(v, total_duration)
             accreted == AndThen(checked_mul(price_delta, elapsed), div_duration)
         IN s.issue_price + (IF accreted.some THEN accreted.v ELSE 0)

calculate_current_price(s, current_time) ==
    IF current_time <= s.issue_date THEN s.issue_price
    ELSE IF current_time >= s.maturity_date THEN PAR_UNIT
    ELSE LET elapsed == current_time - s.issue_date
             total_duration == s.maturity_date - s.issue_date
             price_delta == PAR_UNIT - s.issue_price
             div_duration(v) == checked_div(v, total_duration)
             accreted == AndThen(checked_mul(price_delta, elapsed), div_duration)
         IN s.issue_price + (IF accreted.some THEN accreted.v ELSE 0)

\* Mutant: the payment multiplied by the price instead of divided by it
calculate_minted_par_timesPrice(pay_amount, current_price) ==
    LET div_par(v) == checked_div(v, PAR_UNIT)
    IN AndThen(checked_mul(pay_amount, current_price), div_par)

calculate_minted_par(pay_amount, current_price) ==
    LET div_price(v) == checked_div(v, current_price)
    IN AndThen(checked_mul(pay_amount, PAR_UNIT), div_price)

\* ------------------------------------------------------------------------
\* Repo numeric helpers (repo_market/src/validation.rs)
\* ------------------------------------------------------------------------
calculate_max_cash(collateral_par, mark_price, haircut) ==
    LET div_scale(v) == checked_div(v, 10000000)
        collateral_value == AndThen(checked_mul(collateral_par, mark_price), div_scale)
        ltv_bps == checked_sub(BASIS_POINTS, haircut)
        div_bp(v) == checked_div(v, BASIS_POINTS)
    IN IF ~collateral_value.some \/ ~ltv_bps.some THEN None
       ELSE AndThen(checked_mul(collateral_value.v, ltv_bps.v), div_bp)

calculate_repurchase(cash_out, spread) ==
    LET multiplier == checked_add(BASIS_POINTS, spread)
        div_bp(v) == checked_div(v, BASIS_POINTS)
    IN IF ~multiplier.some THEN None
       ELSE AndThen(checked_mul(cash_out, multiplier.v), div_bp)

\* ------------------------------------------------------------------------
\* Bill Ledger (bt_bill_token/src/lib.rs)
\* ------------------------------------------------------------------------
Key(s, h) == <<s, h>>
HasBalance(bal, s, h) == Key(s, h) \in DOMAIN bal
SetBal(bal, k, v) == [x \in (DOMAIN bal) \cup {k} |-> IF x = k THEN v ELSE bal[x]]
RemoveBal(bal, k) == [x \in (DOMAIN bal) \ {k} |-> bal[x]]

balance_of(bal, s, h) == IF HasBalance(bal, s, h) THEN bal[Key(s, h)] ELSE 0

mint_result(bal, s, to, amount) ==
    IF amount <= 0 THEN "InvalidAmount"
    ELSE IF ~checked_add(balance_of(bal, s, to), amount).some THEN "InvalidAmount"
    ELSE "Ok"

mint_balances(bal, s, to, amount) ==
    SetBal(bal, Key(s, to), balance_of(bal, s, to) + amount)

\* Mutant: the amount is not compared with the balance of an existing record
burn_result_noBalanceCheck(bal, s, from, amount) ==
    IF amount <= 0 THEN "InvalidAmount"
    ELSE IF ~HasBalance(bal, s, from) THEN "InsufficientBalance"
    ELSE "Ok"

burn_result(bal, s, from, amount) ==
    IF amount <= 0 THEN "InvalidAmount"
    ELSE IF ~HasBalance(bal, s, from) THEN "InsufficientBalance"
    ELSE IF bal[Key(s, from)] < amount THEN "InsufficientBalance"
    ELSE "Ok"

\* Mutant: the record rewritten even when nothing is left on it
burn_balances_keepZero(bal, s, from, amount) ==
    SetBal(bal, Key(s, from), bal[Key(s, from)] - amount)

burn_balances(bal, s, from, amount) ==
    LET new_balance == bal[Key(s, from)] - amount
    IN IF new_balance = 0 THEN RemoveBal(bal, Key(s, from))
       ELSE SetBal(bal, Key(s, from), new_balance)

transfer_result(bal, s, from, to, amount) ==
    IF amount <= 0 THEN "InvalidAmount"
    ELSE IF ~HasBalance(bal, s, from) THEN "InsufficientBalance"
    ELSE IF bal[Key(s, from)] < amount THEN "InsufficientBalance"
    ELSE IF ~checked_add(balance_of(bal, s, to), amount).some THEN "InvalidAmount"
    ELSE "Ok"

\* Both balances are read before either is written; the `to` record is written
\* last, from the value read before the `from` record was updated.
transfer_balances(bal, s, from, to, amount) ==
    LET from_balance == bal[Key(s, from)]
        to_balance == balance_of(bal, s, to)
        new_from_balance == from_balance - amount
        new_to_balance == to_balance + amount
        after_from == IF new_from_balance = 0 THEN RemoveBal(bal, Key(s, from))
                      ELSE SetBal(bal, Key(s, from), new_from_balance)
    IN SetBal(after_from, Key(s, to), new_to_balance)

\* ------------------------------------------------------------------------
\* Payment rail: the stablecoin token used through token::Client::transfer.
\* A transfer of a negative amount or beyond the balance traps.
\* ------------------------------------------------------------------------
token_transfer_ok(c, from, amount) == amount >= 0 /\ c[from] >= amount

token_transfer(c, from, to, amount) ==
    IF from = to THEN c
    ELSE [c EXCEPT ![from] = @ - amount, ![to] = @ + amount]

\* Sum of f[x] over the finite set S of arguments of f
RECURSIVE SumFn(_, _)
SumFn(f, S) ==
    IF S = {} THEN 0
    ELSE LET x == CHOOSE y \in S : TRUE IN f[x] + SumFn(f, S \ {x})

TotalBalance(bal, s) == SumFn(bal, {k \in DOMAIN bal : k[1] = s})

\* ------------------------------------------------------------------------
\* Initial state: the three contracts initialized as in the deployment
\* (vault and repo market registered as ledger operators), no series yet.
\* ------------------------------------------------------------------------
ZeroAccounting ==
    [ total_subscriptions_collected |-> 0, total_par_minted |-> 0, total_lent |-> 0,
      total_repo_revenue |-> 0, total_defaults |-> 0 ]

\* i128::saturating_sub: the difference, pinned to the i128 bounds on overflow
\* (i128::MIN is -(2^126 + 2^126) and i128::MAX is 2^126 - 1 + 2^126)
saturating_sub(a, b) ==
    IF FitsI128(a - b) THEN a - b
    ELSE IF a - b < 0 THEN -(2^126 + 2^126)
    ELSE (2^126 - 1) + 2^126

\* Mutant: the liability left out of the profit
calculate_protocol_profit_revenueOnly(acc) ==
    LET sum == checked_add(acc.total_subscriptions_collected, acc.total_repo_revenue)
        revenue == IF sum.some THEN sum.v ELSE 0
    IN revenue

\* BingoVault::calculate_protocol_profit on the stored record
calculate_protocol_profit(acc) ==
    LET sum == checked_add(acc.total_subscriptions_collected, acc.total_repo_revenue)
        revenue == IF sum.some THEN sum.v ELSE 0
        liability == acc.total_par_minted
    IN saturating_sub(revenue, liability)

\* BingoVault::calculate_available_for_lending on the stored record
calculate_available_for_lending(acc) ==
    LET sum == checked_add(acc.total_subscriptions_collected, acc.total_repo_revenue)
        total_usdc == IF sum.some THEN sum.v ELSE 0
        lent == acc.total_lent
    IN saturating_sub(total_usdc, lent)


Result(op, err, args) == [op |-> op, err |-> err, args |-> args]

\* ------------------------------------------------------------------------
\* BingoSeries: the index-based series contract (bingo-mvp)

MVP_SCALE == 10000000

MVP_CONTRACT == "series"
MVP_ADMIN == "admin"

MaxMvpSeries == 1

MvpSeriesIds == 0..(MaxMvpSeries - 1)

MvpCashHolders == Users \cup {MVP_CONTRACT, MVP_ADMIN}

\* <<par_value, subscription_price, maturity_time, max_cap, per_user_cap>>
MvpSeriesParams ==
    { <<10000000, 5000000, 2, 3, 2>>,
      <<10000000, 10000000, 2, 3, 2>>,
      <<10000000, 5000000, 2, 2, 3>> }

MvpUsdcAmounts == {1}

MvpSettleAmounts == {3}

\* The crate's build profile is not part of the sources: integer overflow
\* checks may be on or off
BuildOverflowChecks == BOOLEAN

\* The admin can settle a full series; a user can pay for as many shares as
\* per_user_cap allows
MvpInitialCash ==
    [a \in MvpCashHolders |-> IF a = MVP_CONTRACT THEN 0 ELSE IF a = MVP_ADMIN THEN 3 ELSE 2]

MvpInit ==
    /\ mvp_series = [s \in MvpSeriesIds |-> NoSeries]
    /\ mvp_next_series_id = 0
    /\ mvp_positions = [k \in {} |-> 0]
    /\ mvp_kyc = [u \in Users |-> FALSE]
    /\ mvp_cash = MvpInitialCash
    /\ mvp_redeems = [k \in MvpSeriesIds \X Users |-> 0]

\* The contracts after construction with the cash distribution RepoCash
RepoInit ==
    /\ now = 0
    /\ series = [s \in SeriesIds |-> NoSeries]
    /\ user_pos = [k \in SeriesIds \X Users |-> 0]
    /\ accounting = ZeroAccounting
    /\ balances = [k \in {} |-> 0]
    /\ operators = {VAULT, REPO}
    /\ cash = RepoCash
    /\ positions = << >>
    /\ position_counter = 0
    /\ \E c \in Configs : haircut_bps = c[1] /\ spread_bps = c[2]
    /\ vault_paused = FALSE
    /\ repo_paused = FALSE
    /\ MvpInit
    /\ ledger_minted = [s \in SeriesIds |-> 0]
    /\ ledger_burned = [s \in SeriesIds |-> 0]
    /\ redeemed = [s \in SeriesIds |-> 0]
    /\ ledger_calls = 0
    /\ last = Result("init", "Ok", << >>)

Init ==
    /\ now = 0
    /\ series = [s \in SeriesIds |-> NoSeries]
    /\ user_pos = [k \in SeriesIds \X Users |-> 0]
    /\ accounting = ZeroAccounting
    /\ balances = [k \in {} |-> 0]
    /\ operators = {VAULT, REPO}
    /\ cash = InitialCash
    /\ positions = << >>
    /\ position_counter = 0
    /\ \E c \in Configs : haircut_bps = c[1] /\ spread_bps = c[2]
    /\ vault_paused = FALSE
    /\ repo_paused = FALSE
    /\ MvpInit
    /\ ledger_minted = [s \in SeriesIds |-> 0]
    /\ ledger_burned = [s \in SeriesIds |-> 0]
    /\ redeemed = [s \in SeriesIds |-> 0]
    /\ ledger_calls = 0
    /\ last = Result("init", "Ok", << >>)

\* The ledger clock never moves backward.
Tick ==
    /\ now < MaxTime
    /\ now' = now + 1
    /\ last' = Result("tick", "Ok", << >>)
    /\ UNCHANGED << pauseVars, mvpVars, vaultVars, repoVars, histVars, balances, operators, cash >>

\* ------------------------------------------------------------------------
\* Bill Ledger entry points
\* ------------------------------------------------------------------------
add_operator(operator) ==
    /\ operators' = operators \cup {operator}
    /\ last' = Result("add_operator", "Ok", <<operator>>)
    /\ UNCHANGED << now, pauseVars, mvpVars, vaultVars, repoVars, histVars, balances, cash >>

remove_operator(operator) ==
    /\ operators' = operators \ {operator}
    /\ last' = Result("remove_operator", "Ok", <<operator>>)
    /\ UNCHANGED << now, pauseVars, mvpVars, vaultVars, repoVars, histVars, balances, cash >>

\* mint invoked directly by `caller`; the code never looks at the invoker.
mint(caller, s, to, amount) ==
    LET r == mint_result(balances, s, to, amount)
    IN /\ last' = Result("mint", r, <<caller, s, to, amount>>)
       /\ IF r = "Ok"
          THEN /\ balances' = mint_balances(balances, s, to, amount)
               /\ ledger_minted' = [ledger_minted EXCEPT ![s] = @ + amount]
               /\ ledger_calls' = ledger_calls + 1
          ELSE UNCHANGED << balances, ledger_minted, ledger_calls >>
       /\ UNCHANGED << now, pauseVars, mvpVars, vaultVars, repoVars, operators, cash, ledger_burned, redeemed >>

\* burn invoked directly by `caller`; the code never looks at the invoker.
burn(caller, s, from, amount) ==
    LET r == burn_result(balances, s, from, amount)
    IN /\ last' = Result("burn", r, <<caller, s, from, amount>>)
       /\ IF r = "Ok"
          THEN /\ balances' = burn_balances(balances, s, from, amount)
               /\ ledger_burned' = [ledger_burned EXCEPT ![s] = @ + amount]
               /\ ledger_calls' = ledger_calls + 1
          ELSE UNCHANGED << balances, ledger_burned, ledger_calls >>
       /\ UNCHANGED << now, pauseVars, mvpVars, vaultVars, repoVars, operators, cash, ledger_minted, redeemed >>

\* transfer authorized by `from`
transfer(s, from, to, amount) ==
    LET r == transfer_result(balances, s, from, to, amount)
    IN /\ last' = Result("transfer", r, <<s, from, to, amount>>)
       /\ IF r = "Ok"
          THEN /\ balances' = transfer_balances(balances, s, from, to, amount)
               /\ ledger_calls' = ledger_calls + 1
          ELSE UNCHANGED << balances, ledger_calls >>
       /\ UNCHANGED << now, pauseVars, mvpVars, vaultVars, repoVars, operators, cash, ledger_minted,
                       ledger_burned, redeemed >>

\* ------------------------------------------------------------------------
\* Series Engine entry points (bingo_vault/src/lib.rs)
\* ------------------------------------------------------------------------
NewSeries(series_id, p) ==
    [ series_id |-> series_id, issue_date |-> p[1], maturity_date |-> p[2],
      par_unit |-> PAR_UNIT, issue_price |-> p[3], cap_par |-> p[4], minted_par |-> 0,
      user_cap_par |-> p[5], status |-> "Upcoming", total_subscriptions_collected |-> 0 ]

\* Mutant: the comparison of user_cap_par with cap_par dropped
create_series_result_noUserCapBound(series_id, p) ==
    IF vault_paused THEN "ContractPaused"
    ELSE IF series[series_id] # NoSeries THEN "SeriesAlreadyExists"
    ELSE IF p[2] <= p[1] THEN "InvalidTimestamp"
    ELSE IF p[3] <= 0 \/ p[3] > PAR_UNIT THEN "InvalidIssuePrice"
    ELSE IF p[4] <= 0 \/ p[5] <= 0 THEN "InvalidCapAmounts"
    ELSE "Ok"

create_series_result(series_id, p) ==
    IF vault_paused THEN "ContractPaused"
    ELSE IF series[series_id] # NoSeries THEN "SeriesAlreadyExists"
    ELSE IF p[2] <= p[1] THEN "InvalidTimestamp"
    ELSE IF p[3] <= 0 \/ p[3] > PAR_UNIT THEN "InvalidIssuePrice"
    ELSE IF p[4] <= 0 \/ p[5] <= 0 \/ p[5] > p[4] THEN "InvalidCapAmounts"
    ELSE "Ok"

create_series(series_id, p) ==
    LET r == create_series_result(series_id, p)
    IN /\ last' = Result("create_series", r,
                         <<series_id, p[1], p[2], p[3], p[4], p[5]>>)
       /\ IF r = "Ok"
          THEN series' = [series EXCEPT ![series_id] = NewSeries(series_id, p)]
          ELSE UNCHANGED series
       /\ UNCHANGED << now, pauseVars, mvpVars, user_pos, accounting, repoVars, histVars, balances, operators, cash >>

activate_series_result(series_id) ==
    IF vault_paused THEN "ContractPaused"
    ELSE IF series[series_id] = NoSeries THEN "SeriesNotFound"
    ELSE IF series[series_id].status # "Upcoming" THEN "InvalidStatus"
    ELSE "Ok"

activate_series(series_id) ==
    LET r == activate_series_result(series_id)
    IN /\ last' = Result("activate_series", r, <<series_id>>)
       /\ IF r = "Ok"
          THEN series' = [series EXCEPT ![series_id].status = "Active"]
          ELSE UNCHANGED series
       /\ UNCHANGED << now, pauseVars, mvpVars, user_pos, accounting, repoVars, histVars, balances, operators, cash >>

\* Mutant: the status check dropped (any existing series can be matured)
mature_series_result_anyStatus(series_id) ==
    IF series[series_id] = NoSeries THEN "SeriesNotFound"
    ELSE IF now < series[series_id].maturity_date THEN "SeriesNotMatured"
    ELSE "Ok"

\* Mutant: the status check made before the time check
mature_series_result_statusFirst(series_id) ==
    IF series[series_id] = NoSeries THEN "SeriesNotFound"
    ELSE IF series[series_id].status # "Active" THEN "InvalidStatus"
    ELSE IF now < series[series_id].maturity_date THEN "SeriesNotMatured"
    ELSE "Ok"

mature_series_result(series_id) ==
    IF series[series_id] = NoSeries THEN "SeriesNotFound"
    ELSE IF now < series[series_id].maturity_date THEN "SeriesNotMatured"
    ELSE IF series[series_id].status # "Active" THEN "InvalidStatus"
    ELSE "Ok"

mature_series(series_id) ==
    LET r == mature_series_result(series_id)
    IN /\ last' = Result("mature_series", r, <<series_id>>)
       /\ IF r = "Ok"
          THEN series' = [series EXCEPT ![series_id].status = "Matured"]
          ELSE UNCHANGED series
       /\ UNCHANGED << now, pauseVars, mvpVars, user_pos, accounting, repoVars, histVars, balances, operators, cash >>

\* Quantity minted by subscribe at the current time
subscribe_minted(series_id, pay_amount) ==
    calculate_minted_par(pay_amount, calculate_current_price(series[series_id], now))

\* The sums subscribe writes after the payment and the mint: an overflow of
\* any of them returns InvalidAmount and the call is rolled back
subscribe_accounting_result(s, pay_amount, minted_par) ==
    IF ~checked_add(s.total_subscriptions_collected, pay_amount).some THEN "InvalidAmount"
    ELSE IF ~checked_add(accounting.total_subscriptions_collected, pay_amount).some
    THEN "InvalidAmount"
    ELSE IF ~checked_add(accounting.total_par_minted, minted_par).some THEN "InvalidAmount"
    ELSE "Ok"

\* Mutant: the series cap check dropped
subscribe_result_noSeriesCap(user, series_id, pay_amount) ==
    IF vault_paused THEN "ContractPaused"
    ELSE IF pay_amount <= 0 THEN "InvalidAmount"
    ELSE IF series[series_id] = NoSeries THEN "SeriesNotFound"
    ELSE IF series[series_id].status # "Active" THEN "SeriesNotActive"
    ELSE LET s == series[series_id]
             minted_par == subscribe_minted(series_id, pay_amount)
         IN IF ~minted_par.some THEN "InvalidAmount"
            ELSE IF ~checked_add(user_pos[<<series_id, user>>], minted_par.v).some
                 THEN "InvalidAmount"
            ELSE IF user_pos[<<series_id, user>>] + minted_par.v > s.user_cap_par
                 THEN "ExceedsUserCap"
            ELSE IF ~token_transfer_ok(cash, user, pay_amount) THEN "HostError"
            ELSE IF mint_result(balances, series_id, user, minted_par.v) # "Ok"
                 THEN "HostError"
            ELSE subscribe_accounting_result(s, pay_amount, minted_par.v)

\* Mutant: the series cap compared with the quantity of this call alone
subscribe_result_capPerCall(user, series_id, pay_amount) ==
    IF vault_paused THEN "ContractPaused"
    ELSE IF pay_amount <= 0 THEN "InvalidAmount"
    ELSE IF series[series_id] = NoSeries THEN "SeriesNotFound"
    ELSE IF series[series_id].status # "Active" THEN "SeriesNotActive"
    ELSE LET s == series[series_id]
             minted_par == subscribe_minted(series_id, pay_amount)
         IN IF ~minted_par.some THEN "InvalidAmount"
            ELSE IF minted_par.v > s.cap_par THEN "ExceedsSeriesCap"
            ELSE IF ~checked_add(user_pos[<<series_id, user>>], minted_par.v).some
                 THEN "InvalidAmount"
            ELSE IF user_pos[<<series_id, user>>] + minted_par.v > s.user_cap_par
                 THEN "ExceedsUserCap"
            ELSE IF ~token_transfer_ok(cash, user, pay_amount) THEN "HostError"
            ELSE IF mint_result(balances, series_id, user, minted_par.v) # "Ok"
                 THEN "HostError"
            ELSE subscribe_accounting_result(s, pay_amount, minted_par.v)

\* Mutant: the user cap checked before the series cap
subscribe_result_userCapFirst(user, series_id, pay_amount) ==
    IF vault_paused THEN "ContractPaused"
    ELSE IF pay_amount <= 0 THEN "InvalidAmount"
    ELSE IF series[series_id] = NoSeries THEN "SeriesNotFound"
    ELSE IF series[series_id].status # "Active" THEN "SeriesNotActive"
    ELSE LET s == series[series_id]
             minted_par == subscribe_minted(series_id, pay_amount)
         IN IF ~minted_par.some THEN "InvalidAmount"
            ELSE IF ~checked_add(user_pos[<<series_id, user>>], minted_par.v).some
                 THEN "InvalidAmount"
            ELSE IF user_pos[<<series_id, user>>] + minted_par.v > s.user_cap_par
                 THEN "ExceedsUserCap"
            ELSE IF ~checked_add(s.minted_par, minted_par.v).some THEN "InvalidAmount"
            ELSE IF s.minted_par + minted_par.v > s.cap_par THEN "ExceedsSeriesCap"
            ELSE IF ~token_transfer_ok(cash, user, pay_amount) THEN "HostError"
            ELSE IF mint_result(balances, series_id, user, minted_par.v) # "Ok"
                 THEN "HostError"
            ELSE subscribe_accounting_result(s, pay_amount, minted_par.v)

subscribe_result(user, series_id, pay_amount) ==
    IF vault_paused THEN "ContractPaused"
    ELSE IF pay_amount <= 0 THEN "InvalidAmount"
    ELSE IF series[series_id] = NoSeries THEN "SeriesNotFound"
    ELSE IF series[series_id].status # "Active" THEN "SeriesNotActive"
    ELSE LET s == series[series_id]
             minted_par == subscribe_minted(series_id, pay_amount)
         IN IF ~minted_par.some THEN "InvalidAmount"
            ELSE IF ~checked_add(s.minted_par, minted_par.v).some THEN "InvalidAmount"
            ELSE IF s.minted_par + minted_par.v > s.cap_par THEN "ExceedsSeriesCap"
            ELSE IF ~checked_add(user_pos[<<series_id, user>>], minted_par.v).some
                 THEN "InvalidAmount"
            ELSE IF user_pos[<<series_id, user>>] + minted_par.v > s.user_cap_par
                 THEN "ExceedsUserCap"
            ELSE IF ~token_transfer_ok(cash, user, pay_amount) THEN "HostError"
            ELSE IF mint_result(balances, series_id, user, minted_par.v) # "Ok"
                 THEN "HostError"
            ELSE subscribe_accounting_result(s, pay_amount, minted_par.v)

\* Mutant: the protocol totals overwritten with the totals of the series
\* subscribed to
subscribe_accountingOfSeries(user, series_id, pay_amount) ==
    LET r == subscribe_result(user, series_id, pay_amount)
        m == subscribe_minted(series_id, pay_amount).v
    IN /\ last' = Result("subscribe", r, <<user, series_id, pay_amount>>)
       /\ IF r = "Ok"
          THEN /\ cash' = token_transfer(cash, user, VAULT, pay_amount)
               /\ balances' = mint_balances(balances, series_id, user, m)
               /\ series' = [series EXCEPT
                     ![series_id].minted_par = @ + m,
                     ![series_id].total_subscriptions_collected = @ + pay_amount]
               /\ user_pos' = [user_pos EXCEPT ![<<series_id, user>>] = @ + m]
               /\ accounting' = [accounting EXCEPT
                     !.total_subscriptions_collected =
                         series[series_id].total_subscriptions_collected + pay_amount,
                     !.total_par_minted = series[series_id].minted_par + m]
               /\ ledger_minted' = [ledger_minted EXCEPT ![series_id] = @ + m]
          ELSE UNCHANGED << cash, balances, series, user_pos, accounting, ledger_minted >>
       /\ UNCHANGED << now, pauseVars, mvpVars, repoVars, operators, ledger_burned, redeemed, ledger_calls >>

subscribe(user, series_id, pay_amount) ==
    LET r == subscribe_result(user, series_id, pay_amount)
        m == subscribe_minted(series_id, pay_amount).v
    IN /\ last' = Result("subscribe", r, <<user, series_id, pay_amount>>)
       /\ IF r = "Ok"
          THEN /\ cash' = token_transfer(cash, user, VAULT, pay_amount)
               /\ balances' = mint_balances(balances, series_id, user, m)
               /\ series' = [series EXCEPT
                     ![series_id].minted_par = @ + m,
                     ![series_id].total_subscriptions_collected = @ + pay_amount]
               /\ user_pos' = [user_pos EXCEPT ![<<series_id, user>>] = @ + m]
               /\ accounting' = [accounting EXCEPT
                     !.total_subscriptions_collected = @ + pay_amount,
                     !.total_par_minted = @ + m]
               /\ ledger_minted' = [ledger_minted EXCEPT ![series_id] = @ + m]
          ELSE UNCHANGED << cash, balances, series, user_pos, accounting, ledger_minted >>
       /\ UNCHANGED << now, pauseVars, mvpVars, repoVars, operators, ledger_burned, redeemed, ledger_calls >>

\* Mutant: redemption gated by the status instead of the time alone
redeem_result_statusGated(user, series_id, bt_bill_amount) ==
    IF vault_paused THEN "ContractPaused"
    ELSE IF bt_bill_amount <= 0 THEN "InvalidAmount"
    ELSE IF series[series_id] = NoSeries THEN "SeriesNotFound"
    ELSE IF now < series[series_id].maturity_date THEN "SeriesNotMatured"
    ELSE IF series[series_id].status # "Matured" THEN "SeriesNotMatured"
    ELSE IF burn_result(balances, series_id, user, bt_bill_amount) # "Ok" THEN "HostError"
    ELSE IF ~token_transfer_ok(cash, VAULT, bt_bill_amount) THEN "HostError"
    ELSE "Ok"

redeem_result(user, series_id, bt_bill_amount) ==
    IF vault_paused THEN "ContractPaused"
    ELSE IF bt_bill_amount <= 0 THEN "InvalidAmount"
    ELSE IF series[series_id] = NoSeries THEN "SeriesNotFound"
    ELSE IF now < series[series_id].maturity_date THEN "SeriesNotMatured"
    ELSE IF burn_result(balances, series_id, user, bt_bill_amount) # "Ok" THEN "HostError"
    ELSE IF ~token_transfer_ok(cash, VAULT, bt_bill_amount) THEN "HostError"
    ELSE "Ok"

\* Mutant: the payout is made without burning the bills
redeem_noBurn(user, series_id, bt_bill_amount) ==
    LET r == redeem_result(user, series_id, bt_bill_amount)
    IN /\ last' = Result("redeem", r, <<user, series_id, bt_bill_amount>>)
       /\ IF r = "Ok"
          THEN /\ cash' = token_transfer(cash, VAULT, user, bt_bill_amount)
               /\ redeemed' = [redeemed EXCEPT ![series_id] = @ + bt_bill_amount]
          ELSE UNCHANGED << cash, redeemed >>
       /\ UNCHANGED << now, pauseVars, mvpVars, vaultVars, repoVars, operators, ledger_minted, ledger_calls,
                       balances, ledger_burned >>

\* Mutant: redeeming gives the redeemed quantity back to the holder's
\* subscription allowance
redeem_releasesSubscription(user, series_id, bt_bill_amount) ==
    LET r == redeem_result(user, series_id, bt_bill_amount)
    IN /\ last' = Result("redeem", r, <<user, series_id, bt_bill_amount>>)
       /\ IF r = "Ok"
          THEN /\ balances' = burn_balances(balances, series_id, user, bt_bill_amount)
               /\ cash' = token_transfer(cash, VAULT, user, bt_bill_amount)
               /\ ledger_burned' = [ledger_burned EXCEPT ![series_id] = @ + bt_bill_amount]
               /\ redeemed' = [redeemed EXCEPT ![series_id] = @ + bt_bill_amount]
               /\ user_pos' = [user_pos EXCEPT ![<<series_id, user>>] = @ - bt_bill_amount]
          ELSE UNCHANGED << balances, cash, ledger_burned, redeemed, user_pos >>
       /\ UNCHANGED << now, pauseVars, mvpVars, series, accounting, repoVars, operators, ledger_minted,
                       ledger_calls >>

redeem(user, series_id, bt_bill_amount) ==
    LET r == redeem_result(user, series_id, bt_bill_amount)
    IN /\ last' = Result("redeem", r, <<user, series_id, bt_bill_amount>>)
       /\ IF r = "Ok"
          THEN /\ balances' = burn_balances(balances, series_id, user, bt_bill_amount)
               /\ cash' = token_transfer(cash, VAULT, user, bt_bill_amount)
               /\ ledger_burned' = [ledger_burned EXCEPT ![series_id] = @ + bt_bill_amount]
               /\ redeemed' = [redeemed EXCEPT ![series_id] = @ + bt_bill_amount]
          ELSE UNCHANGED << balances, cash, ledger_burned, redeemed >>
       /\ UNCHANGED << now, pauseVars, mvpVars, vaultVars, repoVars, operators, ledger_minted, ledger_calls >>

\* ------------------------------------------------------------------------
\* Repo Market entry points (repo_market/src/lib.rs)
\* ------------------------------------------------------------------------
\* Mark price the vault reports to open_repo (BingoVault::current_price)
current_price(series_id) == calculate_current_price(series[series_id], now)

open_repo_max_cash(series_id, collateral_par) ==
    calculate_max_cash(collateral_par, current_price(series_id), haircut_bps)

\* The answer of BingoVault::get_series as open_repo asks for it, a tuple of
\* nine values.  The vault answers Err(SeriesNotFound) for a missing series and
\* the Series struct, ten named fields carried as a map, for a stored one;
\* neither converts to the tuple, and invoke_contract traps on both.
get_series_tuple(series_id) == None

open_repo_result(borrower, series_id, collateral_par, desired_cash_out, deadline) ==
    IF repo_paused THEN "ContractPaused"
    ELSE IF collateral_par <= 0 \/ desired_cash_out <= 0 THEN "InvalidAmount"
    ELSE IF ~get_series_tuple(series_id).some THEN "HostError"
    ELSE IF deadline > get_series_tuple(series_id).v[3] THEN "InvalidDeadline"
    ELSE LET max_cash == open_repo_max_cash(series_id, collateral_par)
             repurchase_amount == calculate_repurchase(desired_cash_out, spread_bps)
         IN IF ~max_cash.some THEN "InvalidAmount"
            ELSE IF desired_cash_out > max_cash.v THEN "ExceedsMaxCash"
            ELSE IF ~repurchase_amount.some THEN "InvalidAmount"
            ELSE IF transfer_result(balances, series_id, borrower, REPO, collateral_par) # "Ok"
                 THEN "HostError"
            ELSE IF ~token_transfer_ok(cash, TREASURY, desired_cash_out) THEN "HostError"
            ELSE "Ok"

NewPosition(id, borrower, series_id, collateral_par, desired_cash_out, deadline) ==
    [ id |-> id, borrower |-> borrower, series_id |-> series_id,
      collateral_par |-> collateral_par, cash_out |-> desired_cash_out,
      repurchase_amount |-> calculate_repurchase(desired_cash_out, spread_bps).v,
      start_time |-> now, deadline |-> deadline, status |-> "Open" ]

\* last.args holds the arguments of the call, then the borrower's and the
\* custody's bill balance and the treasury's cash as they were before it
open_repo(borrower, series_id, collateral_par, desired_cash_out, deadline) ==
    LET r == open_repo_result(borrower, series_id, collateral_par, desired_cash_out, deadline)
        new_position_id == position_counter + 1
    IN /\ last' = Result("open_repo", r,
                         <<borrower, series_id, collateral_par, desired_cash_out, deadline,
                           balance_of(balances, series_id, borrower),
                           balance_of(balances, series_id, REPO), cash[TREASURY]>>)
       /\ IF r = "Ok"
          THEN /\ balances' = transfer_balances(balances, series_id, borrower, REPO,
                                                collateral_par)
               /\ cash' = token_transfer(cash, TREASURY, borrower, desired_cash_out)
               /\ positions' = Append(positions,
                     NewPosition(new_position_id, borrower, series_id, collateral_par,
                                 desired_cash_out, deadline))
               /\ position_counter' = new_position_id
          ELSE UNCHANGED << balances, cash, positions, position_counter >>
       /\ UNCHANGED << now, pauseVars, mvpVars, vaultVars, histVars, operators, haircut_bps, spread_bps >>

close_repo_result(position_id) ==
    IF repo_paused THEN "ContractPaused"
    ELSE IF position_id \notin DOMAIN positions THEN "PositionNotFound"
    ELSE LET position == positions[position_id]
         IN IF position.status # "Open" THEN "InvalidStatus"
            ELSE IF now > position.deadline THEN "DeadlinePassed"
            ELSE IF ~token_transfer_ok(cash, position.borrower, position.repurchase_amount)
                 THEN "HostError"
            ELSE IF transfer_result(balances, position.series_id, REPO, position.borrower,
                                    position.collateral_par) # "Ok"
                 THEN "HostError"
            ELSE "Ok"

close_repo(position_id) ==
    LET r == close_repo_result(position_id)
        position == positions[position_id]
    IN /\ last' = Result("close_repo", r, <<position_id>>)
       /\ IF r = "Ok"
          THEN /\ cash' = token_transfer(cash, position.borrower, TREASURY,
                                         position.repurchase_amount)
               /\ balances' = transfer_balances(balances, position.series_id, REPO,
                                                position.borrower, position.collateral_par)
               /\ positions' = [positions EXCEPT ![position_id].status = "Closed"]
          ELSE UNCHANGED << cash, balances, positions >>
       /\ UNCHANGED << now, pauseVars, mvpVars, vaultVars, histVars, operators, position_counter,
                       haircut_bps, spread_bps >>

claim_default_result(position_id) ==
    IF repo_paused THEN "ContractPaused"
    ELSE IF position_id \notin DOMAIN positions THEN "PositionNotFound"
    ELSE LET position == positions[position_id]
         IN IF position.status # "Open" THEN "InvalidStatus"
            ELSE IF now <= position.deadline THEN "DeadlineNotPassed"
            ELSE IF transfer_result(balances, position.series_id, REPO, TREASURY,
                                    position.collateral_par) # "Ok"
                 THEN "HostError"
            ELSE "Ok"

claim_default(position_id) ==
    LET r == claim_default_result(position_id)
        position == positions[position_id]
    IN /\ last' = Result("claim_default", r, <<position_id>>)
       /\ IF r = "Ok"
          THEN /\ balances' = transfer_balances(balances, position.series_id, REPO,
                                                TREASURY, position.collateral_par)
               /\ positions' = [positions EXCEPT ![position_id].status = "Defaulted"]
          ELSE UNCHANGED << balances, positions >>
       /\ UNCHANGED << now, pauseVars, mvpVars, vaultVars, histVars, operators, cash, position_counter,
                       haircut_bps, spread_bps >>

\* The ledger timestamp set to a later value
AdvanceTo(t) ==
    /\ t > now
    /\ now' = t
    /\ last' = Result("tick", "Ok", << >>)
    /\ UNCHANGED << pauseVars, mvpVars, vaultVars, repoVars, histVars, balances, operators, cash >>

\* BingoVault::current_price called; the price returned is kept in last.args
current_price_call(series_id) ==
    /\ last' = IF series[series_id] = NoSeries
               THEN Result("current_price", "SeriesNotFound", <<series_id>>)
               ELSE Result("current_price", "Ok", <<series_id, current_price(series_id)>>)
    /\ UNCHANGED << now, pauseVars, mvpVars, vaultVars, repoVars, histVars, balances, operators, cash >>

\* pricing::calculate_minted_par applied to its arguments; the Option returned
\* is kept in last (err "None" for None, the value in last.args[3] for Some)
calculate_minted_par_call(pay_amount, price) ==
    LET r == calculate_minted_par(pay_amount, price)
    IN /\ last' = Result("calculate_minted_par", IF r.some THEN "Some" ELSE "None",
                         <<pay_amount, price, r.v>>)
       /\ UNCHANGED << now, pauseVars, mvpVars, vaultVars, repoVars, histVars, balances, operators, cash >>

\* validation::calculate_max_cash applied to its arguments; the Option returned
\* is kept in last (err "None" for None, the value in last.args[4] for Some)
calculate_max_cash_call(collateral_par, mark_price, haircut) ==
    LET r == calculate_max_cash(collateral_par, mark_price, haircut)
    IN /\ last' = Result("calculate_max_cash", IF r.some THEN "Some" ELSE "None",
                         <<collateral_par, mark_price, haircut, r.v>>)
       /\ UNCHANGED << now, pauseVars, mvpVars, vaultVars, repoVars, histVars, balances, operators, cash >>

\* calculate_available_for_lending answering over a stored record acc; the
\* value returned is kept in last.args[2]
calculate_available_for_lending_call(acc) ==
    /\ last' = Result("calculate_available_for_lending", "Ok",
                      <<acc, calculate_available_for_lending(acc)>>)
    /\ UNCHANGED << now, pauseVars, mvpVars, vaultVars, repoVars, histVars, balances, operators, cash >>

\* BingoVault::pause and unpause, RepoMarket::pause and unpause (admin calls)
vault_pause ==
    /\ vault_paused' = TRUE
    /\ last' = Result("pause", "Ok", <<VAULT>>)
    /\ UNCHANGED << now, repo_paused, mvpVars, vaultVars, repoVars, histVars, balances, operators,
                    cash >>

vault_unpause ==
    /\ vault_paused' = FALSE
    /\ last' = Result("unpause", "Ok", <<VAULT>>)
    /\ UNCHANGED << now, repo_paused, mvpVars, vaultVars, repoVars, histVars, balances, operators,
                    cash >>

repo_pause ==
    /\ repo_paused' = TRUE
    /\ last' = Result("pause", "Ok", <<REPO>>)
    /\ UNCHANGED << now, vault_paused, mvpVars, vaultVars, repoVars, histVars, balances, operators,
                    cash >>

repo_unpause ==
    /\ repo_paused' = FALSE
    /\ last' = Result("unpause", "Ok", <<REPO>>)
    /\ UNCHANGED << now, vault_paused, mvpVars, vaultVars, repoVars, histVars, balances, operators,
                    cash >>

\* ------------------------------------------------------------------------
\* BingoSeries operations

is_kyc_verified(user) == mvp_kyc[user]

validate_series_params(par_value, subscription_price, maturity_time, max_cap, per_user_cap) ==
    IF subscription_price >= par_value THEN "Subscription price must be less than par"
    ELSE IF maturity_time <= now THEN "Maturity must be in the future"
    ELSE IF max_cap <= 0 THEN "Max cap must be positive"
    ELSE IF per_user_cap <= 0 THEN "Per user cap must be positive"
    ELSE IF per_user_cap > max_cap THEN "Per user cap cannot exceed max cap"
    ELSE "Ok"

issue_series(p) ==
    LET r == validate_series_params(p[1], p[2], p[3], p[4], p[5])
        series_id == mvp_next_series_id
    IN /\ mvp_next_series_id < MaxMvpSeries
       /\ last' = Result("issue_series", r, p)
       /\ IF r = "Ok"
          THEN /\ mvp_series' = [mvp_series EXCEPT ![series_id] =
                     [id |-> series_id, par_value |-> p[1], subscription_price |-> p[2],
                      issue_time |-> now, maturity_time |-> p[3], max_cap |-> p[4],
                      per_user_cap |-> p[5], total_subscribed |-> 0, status |-> "Active"]]
               /\ mvp_next_series_id' = mvp_next_series_id + 1
          ELSE UNCHANGED << mvp_series, mvp_next_series_id >>
       /\ UNCHANGED << now, pauseVars, vaultVars, repoVars, histVars, balances, operators, cash,
                       mvp_positions, mvp_kyc, mvp_cash, mvp_redeems >>

verify_kyc(user) ==
    /\ mvp_kyc' = [mvp_kyc EXCEPT ![user] = TRUE]
    /\ last' = Result("verify_kyc", "Ok", <<user>>)
    /\ UNCHANGED << now, pauseVars, vaultVars, repoVars, histVars, balances, operators, cash,
                    mvp_series, mvp_next_series_id, mvp_positions, mvp_cash, mvp_redeems >>

revoke_kyc(user) ==
    /\ mvp_kyc' = [mvp_kyc EXCEPT ![user] = FALSE]
    /\ last' = Result("revoke_kyc", "Ok", <<user>>)
    /\ UNCHANGED << now, pauseVars, vaultVars, repoVars, histVars, balances, operators, cash,
                    mvp_series, mvp_next_series_id, mvp_positions, mvp_cash, mvp_redeems >>

\* The functions of YieldCalculator use the plain operators of i128; None is a
\* panic of the call.
calculate_index(overflow_checks, s) ==
    IF now >= s.maturity_time THEN Some(MVP_SCALE)
    ELSE LET elapsed == now - s.issue_time
             duration == s.maturity_time - s.issue_time
             total_yield == Arith(overflow_checks, s.par_value - s.subscription_price)
             product == IF total_yield.some
                        THEN Arith(overflow_checks, total_yield.v * elapsed) ELSE None
             accrued_yield == IF product.some THEN Div(product.v, duration) ELSE None
         IN IF accrued_yield.some
            THEN Arith(overflow_checks, s.subscription_price + accrued_yield.v)
            ELSE None

calculate_shares(overflow_checks, usdc_amount, current_index) ==
    LET product == Arith(overflow_checks, usdc_amount * MVP_SCALE)
    IN IF product.some THEN Div(product.v, current_index) ELSE None

calculate_redemption_value(overflow_checks, shares, par_value) ==
    LET product == Arith(overflow_checks, shares * par_value)
    IN IF product.some THEN Div(product.v, MVP_SCALE) ELSE None

\* Storage::get_user_position(..).unwrap_or(..) as subscribe reads it
get_user_position(series_id, user, current_index) ==
    IF <<series_id, user>> \in DOMAIN mvp_positions
    THEN mvp_positions[<<series_id, user>>]
    ELSE [shares |-> 0, entry_index |-> current_index]

\* Mutant: the series total compared with the cap before the new shares are added
validate_subscription_beforeAdding(overflow_checks, s, new_shares, user_total_shares) ==
    IF s.status # "Active" THEN "Series not active"
    ELSE IF now >= s.maturity_time THEN "Series has matured"
    ELSE IF s.total_subscribed > s.max_cap THEN "Exceeds max cap"
    ELSE IF user_total_shares > s.per_user_cap THEN "Exceeds per-user cap"
    ELSE "Ok"

validate_subscription(overflow_checks, s, new_shares, user_total_shares) ==
    IF s.status # "Active" THEN "Series not active"
    ELSE IF now >= s.maturity_time THEN "Series has matured"
    ELSE LET total == Arith(overflow_checks, s.total_subscribed + new_shares)
         IN IF ~total.some THEN "HostError"
            ELSE IF total.v > s.max_cap THEN "Exceeds max cap"
            ELSE IF user_total_shares > s.per_user_cap THEN "Exceeds per-user cap"
            ELSE "Ok"

\* The values subscribe computes before it validates; None when one of the
\* computations panics
mvp_subscribe_values(overflow_checks, series_id, usdc_amount, user) ==
    LET s == mvp_series[series_id]
        current_index == calculate_index(overflow_checks, s)
        shares == IF current_index.some
                  THEN calculate_shares(overflow_checks, usdc_amount, current_index.v)
                  ELSE None
        existing_position == IF current_index.some
                             THEN get_user_position(series_id, user, current_index.v)
                             ELSE [shares |-> 0, entry_index |-> 0]
        new_total_shares == IF shares.some
                            THEN Arith(overflow_checks, existing_position.shares + shares.v)
                            ELSE None
    IN IF ~new_total_shares.some THEN None
       ELSE Some([current_index |-> current_index.v, shares |-> shares.v,
                  existing_position |-> existing_position,
                  new_total_shares |-> new_total_shares.v])

mvp_subscribe_result(overflow_checks, series_id, usdc_amount, user) ==
    IF ~is_kyc_verified(user) THEN "User not KYC verified"
    ELSE IF series_id \notin MvpSeriesIds \/ mvp_series[series_id] = NoSeries
    THEN "Series not found"
    ELSE LET s == mvp_series[series_id]
             c == mvp_subscribe_values(overflow_checks, series_id, usdc_amount, user)
         IN IF ~c.some THEN "HostError"
            ELSE LET v == validate_subscription(overflow_checks, s, c.v.shares,
                                                c.v.new_total_shares)
                 IN IF v # "Ok" THEN v
                    ELSE IF ~token_transfer_ok(mvp_cash, user, usdc_amount) THEN "HostError"
                    ELSE IF ~Arith(overflow_checks, s.total_subscribed + c.v.shares).some
                    THEN "HostError"
                    ELSE "Ok"

mvp_subscribe(overflow_checks, series_id, usdc_amount, user) ==
    LET r == mvp_subscribe_result(overflow_checks, series_id, usdc_amount, user)
    IN /\ last' = Result("mvp_subscribe", r, <<series_id, usdc_amount, user>>)
       /\ IF r = "Ok"
          THEN LET c == mvp_subscribe_values(overflow_checks, series_id, usdc_amount, user).v
                   total_subscribed ==
                       Arith(overflow_checks,
                             mvp_series[series_id].total_subscribed + c.shares).v
                   position == [shares |-> c.new_total_shares,
                                entry_index |-> IF c.existing_position.shares = 0
                                                THEN c.current_index
                                                ELSE c.existing_position.entry_index]
               IN /\ mvp_cash' = token_transfer(mvp_cash, user, MVP_CONTRACT, usdc_amount)
                  /\ mvp_series' = [mvp_series EXCEPT
                                       ![series_id].total_subscribed = total_subscribed]
                  /\ mvp_positions' = [k \in DOMAIN mvp_positions \cup {<<series_id, user>>} |->
                                          IF k = <<series_id, user>> THEN position
                                          ELSE mvp_positions[k]]
          ELSE UNCHANGED << mvp_cash, mvp_series, mvp_positions >>
       /\ UNCHANGED << now, pauseVars, vaultVars, repoVars, histVars, balances, operators, cash,
                       mvp_next_series_id, mvp_kyc, mvp_redeems >>

validate_redemption(s) == IF now < s.maturity_time THEN "Series not yet matured" ELSE "Ok"

mvp_redeem_result(overflow_checks, series_id, user) ==
    IF ~is_kyc_verified(user) THEN "User not KYC verified"
    ELSE IF series_id \notin MvpSeriesIds \/ mvp_series[series_id] = NoSeries
    THEN "Series not found"
    ELSE LET s == mvp_series[series_id]
         IN IF validate_redemption(s) # "Ok" THEN validate_redemption(s)
            ELSE IF <<series_id, user>> \notin DOMAIN mvp_positions THEN "No position found"
            ELSE LET redemption_value ==
                         calculate_redemption_value(overflow_checks,
                             mvp_positions[<<series_id, user>>].shares, s.par_value)
                 IN IF ~redemption_value.some THEN "HostError"
                    ELSE IF ~token_transfer_ok(mvp_cash, MVP_CONTRACT, redemption_value.v)
                    THEN "HostError"
                    ELSE "Ok"

mvp_redeem_keepsPosition(overflow_checks, series_id, user) ==
    LET r == mvp_redeem_result(overflow_checks, series_id, user)
    IN /\ last' = Result("mvp_redeem", r, <<series_id, user>>)
       /\ IF r = "Ok"
          THEN LET redemption_value ==
                       calculate_redemption_value(overflow_checks,
                           mvp_positions[<<series_id, user>>].shares,
                           mvp_series[series_id].par_value).v
               IN /\ mvp_cash' = token_transfer(mvp_cash, MVP_CONTRACT, user, redemption_value)
                  /\ mvp_positions' = mvp_positions
                  /\ mvp_redeems' = [mvp_redeems EXCEPT ![<<series_id, user>>] = @ + 1]
          ELSE UNCHANGED << mvp_cash, mvp_positions, mvp_redeems >>
       /\ UNCHANGED << now, pauseVars, vaultVars, repoVars, histVars, balances, operators, cash,
                       mvp_series, mvp_next_series_id, mvp_kyc >>

mvp_redeem(overflow_checks, series_id, user) ==
    LET r == mvp_redeem_result(overflow_checks, series_id, user)
    IN /\ last' = Result("mvp_redeem", r, <<series_id, user>>)
       /\ IF r = "Ok"
          THEN LET redemption_value ==
                       calculate_redemption_value(overflow_checks,
                           mvp_positions[<<series_id, user>>].shares,
                           mvp_series[series_id].par_value).v
               IN /\ mvp_cash' = token_transfer(mvp_cash, MVP_CONTRACT, user, redemption_value)
                  /\ mvp_positions' = [k \in DOMAIN mvp_positions \ {<<series_id, user>>} |->
                                          mvp_positions[k]]
                  /\ mvp_redeems' = [mvp_redeems EXCEPT ![<<series_id, user>>] = @ + 1]
          ELSE UNCHANGED << mvp_cash, mvp_positions, mvp_redeems >>
       /\ UNCHANGED << now, pauseVars, vaultVars, repoVars, histVars, balances, operators, cash,
                       mvp_series, mvp_next_series_id, mvp_kyc >>

validate_settlement(s, usdc_amount, required) ==
    IF now < s.maturity_time THEN "Series not yet matured"
    ELSE IF usdc_amount < required THEN "Insufficient settlement amount"
    ELSE "Ok"

settle_series_result(overflow_checks, series_id, usdc_amount) ==
    IF series_id \notin MvpSeriesIds \/ mvp_series[series_id] = NoSeries
    THEN "Series not found"
    ELSE LET s == mvp_series[series_id]
             product == Arith(overflow_checks, s.total_subscribed * s.par_value)
             required == IF product.some THEN Div(product.v, MVP_SCALE) ELSE None
         IN IF ~required.some THEN "HostError"
            ELSE IF validate_settlement(s, usdc_amount, required.v) # "Ok"
            THEN validate_settlement(s, usdc_amount, required.v)
            ELSE IF ~token_transfer_ok(mvp_cash, MVP_ADMIN, usdc_amount) THEN "HostError"
            ELSE "Ok"

settle_series(overflow_checks, series_id, usdc_amount) ==
    LET r == settle_series_result(overflow_checks, series_id, usdc_amount)
    IN /\ last' = Result("settle_series", r, <<series_id, usdc_amount>>)
       /\ IF r = "Ok"
          THEN /\ mvp_cash' = token_transfer(mvp_cash, MVP_ADMIN, MVP_CONTRACT, usdc_amount)
               /\ mvp_series' = [mvp_series EXCEPT ![series_id].status = "Settled"]
          ELSE UNCHANGED << mvp_cash, mvp_series >>
       /\ UNCHANGED << now, pauseVars, vaultVars, repoVars, histVars, balances, operators, cash,
                       mvp_next_series_id, mvp_positions, mvp_kyc, mvp_redeems >>

\* ------------------------------------------------------------------------
\* Specification
\* ------------------------------------------------------------------------
\* Budgets of successful direct ledger calls
CoreBudget == ledger_calls < MaxLedgerCalls
PositionBudget == position_counter < MaxPositions
ProtocolPositionBudget == position_counter < MaxProtocolPositions
LedgerBudget == ledger_calls < MaxLedgerOnlyCalls

Next ==
    \/ Tick
    \/ \E m \in CoreMints, s \in CoreSeriesIds : CoreBudget /\ mint(m[1], s, m[2], m[3])
    \/ \E b \in CoreBurns, s \in CoreSeriesIds : CoreBudget /\ burn(b[1], s, b[2], b[3])
    \/ \E x \in CoreTransfers, s \in CoreSeriesIds : CoreBudget /\ transfer(s, x[1], x[2], x[3])
    \/ \E s \in CoreSeriesIds, p \in CoreSeriesParams : create_series(s, p)
    \/ \E s \in CoreSeriesIds : activate_series(s)
    \/ \E s \in CoreSeriesIds : mature_series(s)
    \/ \E u \in Users, s \in CoreSeriesIds, a \in PayAmounts : subscribe(u, s, a)
    \/ \E u \in Users, s \in CoreSeriesIds, a \in RedeemAmounts : redeem(u, s, a)
    \/ \E b \in Borrowers, s \in CoreSeriesIds, q \in RepoRequests :
          PositionBudget /\ open_repo(b, s, q[1], q[2], q[3])
    \/ \E pid \in 1..MaxPositions : close_repo(pid)
    \/ \E pid \in 1..MaxPositions : claim_default(pid)

\* The three contracts with the ledger reached only through the vault and the
\* repo market (its registered operators)
ProtocolNext ==
    \/ Tick
    \/ \E s \in CoreSeriesIds, p \in SeriesParams : create_series(s, p)
    \/ \E s \in CoreSeriesIds : activate_series(s)
    \/ \E s \in CoreSeriesIds : mature_series(s)
    \/ \E u \in Users, s \in CoreSeriesIds, a \in PayAmounts : subscribe(u, s, a)
    \/ \E u \in Users, s \in CoreSeriesIds, a \in RedeemAmounts : redeem(u, s, a)
    \/ \E b \in Borrowers, s \in CoreSeriesIds, q \in ProtocolRepoRequests :
          ProtocolPositionBudget /\ open_repo(b, s, q[1], q[2], q[3])
    \/ \E pid \in 1..MaxProtocolPositions : close_repo(pid)
    \/ \E pid \in 1..MaxProtocolPositions : claim_default(pid)

\* The Bill Ledger on its own, called directly by any party
LedgerNext ==
    \/ \E op \in OperatorCandidates : add_operator(op)
    \/ \E op \in OperatorCandidates : remove_operator(op)
    \/ \E c \in LedgerCallers, s \in SeriesIds, to \in Users, a \in LedgerAmounts :
          LedgerBudget /\ mint(c, s, to, a)
    \/ \E c \in LedgerCallers, s \in SeriesIds, from \in Holders, a \in LedgerAmounts :
          LedgerBudget /\ burn(c, s, from, a)
    \/ \E s \in SeriesIds, from \in Users, to \in Holders, a \in LedgerAmounts :
          LedgerBudget /\ transfer(s, from, to, a)

Spec == Init /\ [][Next]_vars

LedgerSpec == Init /\ [][LedgerNext]_vars

ProtocolSpec == Init /\ [][ProtocolNext]_vars

\* The pricing engine queried on every accepted series at every offered time
PriceNext ==
    \/ \E t \in PriceTimes : AdvanceTo(t)
    \/ \E s \in SeriesIds, p \in PriceParams \cup SeriesParams : create_series(s, p)
    \/ \E s \in SeriesIds : current_price_call(s)

PriceSpec == Init /\ [][PriceNext]_vars

\* The mint-quantity function applied to every offered pair of arguments
MintNext == \E a \in MintPayAmounts, p \in MintPrices : calculate_minted_par_call(a, p)

MintSpec == Init /\ [][MintNext]_vars

\* The Series Engine with two series side by side and the Repo Market lending
\* against the first
VaultNext ==
    \/ Tick
    \/ \E s \in SeriesIds, p \in CoreSeriesParams : create_series(s, p)
    \/ \E s \in SeriesIds : activate_series(s)
    \/ \E s \in SeriesIds : mature_series(s)
    \/ \E u \in Borrowers, s \in SeriesIds, a \in PayAmounts : subscribe(u, s, a)
    \/ \E u \in Borrowers, s \in SeriesIds, a \in RedeemAmounts : redeem(u, s, a)
    \/ \E b \in Borrowers, s \in CoreSeriesIds, q \in RepoRequests :
          PositionBudget /\ open_repo(b, s, q[1], q[2], q[3])
    \/ \E pid \in 1..MaxPositions : close_repo(pid)
    \/ \E pid \in 1..MaxPositions : claim_default(pid)

VaultSpec == Init /\ [][VaultNext]_vars

\* The lending capacity read over every offered accounting record
AvailableNext ==
    \E acc \in AccountingRecords : calculate_available_for_lending_call(acc)

AvailableSpec == Init /\ [][AvailableNext]_vars

\* Lending against one series by a borrower who can repay principal and spread
RepoNext ==
    \/ Tick
    \/ \E s \in CoreSeriesIds, p \in CoreSeriesParams : create_series(s, p)
    \/ \E s \in CoreSeriesIds : activate_series(s)
    \/ \E s \in CoreSeriesIds : mature_series(s)
    \/ \E u \in Users, s \in CoreSeriesIds, a \in PayAmounts : subscribe(u, s, a)
    \/ \E u \in Users, s \in CoreSeriesIds, a \in RedeemAmounts : redeem(u, s, a)
    \/ \E b \in Borrowers, s \in CoreSeriesIds, q \in RepoLoanRequests :
          ProtocolPositionBudget /\ open_repo(b, s, q[1], q[2], q[3])
    \/ \E pid \in 1..MaxProtocolPositions : close_repo(pid)
    \/ \E pid \in 1..MaxProtocolPositions : claim_default(pid)

RepoSpec == RepoInit /\ [][RepoNext]_vars

\* The loan-to-value function applied to every offered triple of arguments
MaxCashNext ==
    \E c \in MaxCashCollaterals, p \in MaxCashPrices, h \in MaxCashHaircuts :
        calculate_max_cash_call(c, p, h)

MaxCashSpec == Init /\ [][MaxCashNext]_vars


\* The protocol with the emergency switches of the vault and the repo market
PauseNext ==
    \/ Tick
    \/ vault_pause
    \/ vault_unpause
    \/ repo_pause
    \/ repo_unpause
    \/ \E s \in CoreSeriesIds, p \in CoreSeriesParams : create_series(s, p)
    \/ \E s \in CoreSeriesIds : activate_series(s)
    \/ \E s \in CoreSeriesIds : mature_series(s)
    \/ \E u \in Borrowers, s \in CoreSeriesIds, a \in PayAmounts : subscribe(u, s, a)
    \/ \E u \in Borrowers, s \in CoreSeriesIds, a \in RedeemAmounts : redeem(u, s, a)
    \/ \E b \in Borrowers, s \in CoreSeriesIds, q \in RepoLoanRequests :
          ProtocolPositionBudget /\ open_repo(b, s, q[1], q[2], q[3])
    \/ \E pid \in 1..MaxProtocolPositions : close_repo(pid)
    \/ \E pid \in 1..MaxProtocolPositions : claim_default(pid)

PauseSpec == RepoInit /\ [][PauseNext]_vars

\* BingoSeries on its own
MvpNext ==
    \/ Tick
    \/ \E p \in MvpSeriesParams : issue_series(p)
    \/ \E u \in Users : verify_kyc(u)
    \/ \E u \in Users : revoke_kyc(u)
    \/ \E c \in BuildOverflowChecks, s \in MvpSeriesIds, a \in MvpUsdcAmounts, u \in Users :
          mvp_subscribe(c, s, a, u)
    \/ \E c \in BuildOverflowChecks, s \in MvpSeriesIds, u \in Users : mvp_redeem(c, s, u)
    \/ \E c \in BuildOverflowChecks, s \in MvpSeriesIds, a \in MvpSettleAmounts :
          settle_series(c, s, a)

MvpSpec == Init /\ [][MvpNext]_vars

\* ------------------------------------------------------------------------
\* Properties
\* ------------------------------------------------------------------------
\* Everything a contract call can write, the history variables aside
contractState ==
    << series, user_pos, accounting, balances, cash, positions, position_counter >>

Exists(s) == series[s] # NoSeries

\* C1 -- Cap invariant: every series has 0 <= minted <= cap, and every
\* (series, holder) subscription record is at most the series' user_cap.
C1_CapInvariant ==
    \A s \in SeriesIds :
        Exists(s) =>
            /\ 0 <= series[s].minted_par
            /\ series[s].minted_par <= series[s].cap_par
            /\ \A u \in Users : user_pos[<<s, u>>] <= series[s].user_cap_par

\* A subscribe has just filled the series to its cap and a holder to the user cap.
C1_Witness ==
    /\ last.op = "subscribe" /\ last.err = "Ok"
    /\ \E s \in SeriesIds :
          /\ Exists(s)
          /\ series[s].minted_par = series[s].cap_par
          /\ \E u \in Users : user_pos[<<s, u>>] = series[s].user_cap_par

\* C2 -- Ledger conservation: for every series the sum of all balances equals
\* the cumulative amount minted minus the cumulative amount burned (so every
\* successful transfer, also one with from = to, leaves the sum unchanged).
C2_LedgerConservation ==
    \A s \in SeriesIds :
        TotalBalance(balances, s) = ledger_minted[s] - ledger_burned[s]

\* C3 -- Cross-component conservation: for every series the sum of all ledger
\* balances equals series.minted minus the quantity burned by redeem.
C3_CrossConservation ==
    \A s \in SeriesIds :
        TotalBalance(balances, s) =
            (IF Exists(s) THEN series[s].minted_par ELSE 0) - redeemed[s]

\* C4 -- Mint and burn are operator-only: a mint or burn invoked by a party
\* that is not in the operator set leaves every balance unchanged.
C4_OperatorOnly ==
    [][ (last'.op \in {"mint", "burn"} /\ last'.args[1] \notin operators)
            => balances' = balances ]_vars

\* C6 -- Series lifecycle: a series is created Upcoming; its status changes
\* only Upcoming -> Active by activate_series and Active -> Matured by
\* mature_series at or after maturity; it is never Closed, never removed, and
\* activate_series and mature_series change no other field.
C6_Lifecycle ==
    [][ \A s \in SeriesIds :
          /\ (~Exists(s) /\ series'[s] # NoSeries) =>
                (series'[s].status = "Upcoming" /\ last'.op = "create_series")
          /\ Exists(s) =>
                /\ series'[s] # NoSeries
                /\ series'[s].status \in {"Upcoming", "Active", "Matured"}
                /\ series'[s].status # series[s].status =>
                      \/ /\ series[s].status = "Upcoming" /\ series'[s].status = "Active"
                         /\ last' = Result("activate_series", "Ok", <<s>>)
                      \/ /\ series[s].status = "Active" /\ series'[s].status = "Matured"
                         /\ last' = Result("mature_series", "Ok", <<s>>)
                         /\ now >= series[s].maturity_date
                /\ last'.op \in {"activate_series", "mature_series"} =>
                      series'[s] = [series[s] EXCEPT !.status = series'[s].status]
      ]_vars

\* A series has just been matured by mature_series.
C6_Witness ==
    /\ last.op = "mature_series" /\ last.err = "Ok"
    /\ series[last.args[1]].status = "Matured"

\* C7 -- Idempotent maturity: mature_series on a Matured series fails with
\* InvalidStatus and changes nothing; on any series that is not Active it
\* fails with SeriesNotMatured before maturity and InvalidStatus otherwise.
C7_IdempotentMaturity ==
    [][ \A s \in SeriesIds :
          (last'.op = "mature_series" /\ last'.args = <<s>> /\ Exists(s)
              /\ series[s].status # "Active") =>
            /\ last'.err = IF now < series[s].maturity_date
                           THEN "SeriesNotMatured" ELSE "InvalidStatus"
            /\ series[s].status = "Matured" => last'.err = "InvalidStatus"
            /\ UNCHANGED contractState
      ]_vars

\* mature_series has just been refused on a series that is already Matured.
C7_Witness ==
    /\ last.op = "mature_series" /\ last.err = "InvalidStatus"
    /\ series[last.args[1]].status = "Matured"

\* C13 (as stated) -- redeem on an existing series fails with
\* SeriesNotMatured and changes nothing whenever now < maturity_date, for
\* every bill amount.
C13_RedeemTimeGated_AsStated ==
    [][ \A s \in SeriesIds :
          (last'.op = "redeem" /\ last'.args[2] = s /\ Exists(s)
              /\ now < series[s].maturity_date) =>
            (last'.err = "SeriesNotMatured" /\ UNCHANGED contractState)
      ]_vars

\* C13 -- Redemption is time-gated, not status-gated: redeem of a positive
\* amount on an existing series fails with SeriesNotMatured and changes
\* nothing whenever now < maturity_date; whenever now >= maturity_date it
\* succeeds exactly when the holder has the bills and the vault has the cash,
\* whatever the status of the series.
C13_RedeemTimeGated ==
    [][ \A s \in SeriesIds :
          (last'.op = "redeem" /\ last'.args[2] = s /\ Exists(s) /\ last'.args[3] > 0) =>
            IF now < series[s].maturity_date
            THEN last'.err = "SeriesNotMatured" /\ UNCHANGED contractState
            ELSE /\ last'.err \in {"Ok", "HostError"}
                 /\ last'.err = "Ok" <=>
                       /\ balance_of(balances, s, last'.args[1]) >= last'.args[3]
                       /\ cash[VAULT] >= last'.args[3]
      ]_vars

\* A redeem has just succeeded at or after maturity on a series whose status
\* is still Active.
C13_Witness ==
    /\ last.op = "redeem" /\ last.err = "Ok"
    /\ series[last.args[2]].status = "Active"
    /\ now >= series[last.args[2]].maturity_date

\* C14 -- Redemption pays 1:1 at par: a successful redeem(user, s, a) takes
\* exactly a from the user's bill balance of s, pays exactly a of cash from the
\* vault to the user, and changes no other bill balance, no other cash
\* balance and no field of any series record; a redeem with a <= 0 fails with
\* InvalidAmount, and a redeem for more than the user's balance fails and
\* changes nothing.
C14_RedeemAtPar ==
    [][ last'.op = "redeem" =>
          LET u == last'.args[1]
              s == last'.args[2]
              a == last'.args[3]
          IN /\ a <= 0 => last'.err = "InvalidAmount"
             /\ a > balance_of(balances, s, u) =>
                   (last'.err # "Ok" /\ UNCHANGED contractState)
             /\ last'.err = "Ok" =>
                   /\ balance_of(balances', s, u) = balance_of(balances, s, u) - a
                   /\ cash'[u] = cash[u] + a
                   /\ cash'[VAULT] = cash[VAULT] - a
                   /\ \A k \in (DOMAIN balances) \cup (DOMAIN balances') :
                         k # Key(s, u) =>
                            balance_of(balances', k[1], k[2]) = balance_of(balances, k[1], k[2])
                   /\ \A c \in CashHolders \ {u, VAULT} : cash'[c] = cash[c]
                   /\ series' = series
      ]_vars

\* A redeem has just succeeded while another holder holds bills of the series.
C14_Witness ==
    /\ last.op = "redeem" /\ last.err = "Ok" /\ last.args[3] > 0
    /\ \E k \in DOMAIN balances : k[1] = last.args[2] /\ k[2] # last.args[1]

\* C15 -- Price bounds: for every stored series and all times t, t2,
\* issue_price <= price(t) <= PAR_UNIT; price(t) = issue_price for
\* t <= issue_date; price(t) = PAR_UNIT for t >= maturity_date; and t <= t2
\* implies price(t) <= price(t2).  The price current_price returns obeys the
\* same bounds.
C15_PriceBounds ==
    \A s \in SeriesIds :
        Exists(s) =>
            LET ser == series[s]
                price(t) == calculate_current_price(ser, t)
            IN /\ \A t \in PriceTimes :
                    /\ ser.issue_price <= price(t) /\ price(t) <= PAR_UNIT
                    /\ t <= ser.issue_date => price(t) = ser.issue_price
                    /\ t >= ser.maturity_date => price(t) = PAR_UNIT
                    /\ \A t2 \in PriceTimes : t <= t2 => price(t) <= price(t2)
               /\ (last.op = "current_price" /\ last.err = "Ok" /\ last.args[1] = s) =>
                    /\ ser.issue_price <= last.args[2] /\ last.args[2] <= PAR_UNIT
                    /\ now <= ser.issue_date => last.args[2] = ser.issue_price
                    /\ now >= ser.maturity_date => last.args[2] = PAR_UNIT

\* current_price has just returned PAR_UNIT after the maturity of a series
\* issued below par.
C15_Witness ==
    /\ last.op = "current_price" /\ last.err = "Ok"
    /\ now > series[last.args[1]].maturity_date
    /\ series[last.args[1]].issue_price < PAR_UNIT
    /\ last.args[2] = PAR_UNIT

\* C16 -- Linear accretion: for issue_date < now < maturity_date the price
\* current_price returns is exactly
\*   issue_price + floor((PAR_UNIT - issue_price) * (now - issue_date)
\*                          / (maturity_date - issue_date)).
C16_LinearAccretion ==
    (last.op = "current_price" /\ last.err = "Ok") =>
        LET ser == series[last.args[1]]
        IN (ser.issue_date < now /\ now < ser.maturity_date) =>
              last.args[2] = ser.issue_price
                  + FloorDiv((PAR_UNIT - ser.issue_price) * (now - ser.issue_date),
                             ser.maturity_date - ser.issue_date)

\* The series issued at 9,800,000 over 1000..2000 has just been priced at
\* 9,900,000 at time 1500.
C16_Witness ==
    /\ last = Result("current_price", "Ok", <<1, 9900000>>)
    /\ now = 1500
    /\ series[1].issue_price = 9800000
    /\ series[1].issue_date = 1000 /\ series[1].maturity_date = 2000

C18_CreateValidation ==
    [][ /\ last'.op = "create_series" =>
              LET id == last'.args[1]
                  issue_date == last'.args[2]
                  maturity_date == last'.args[3]
                  issue_price == last'.args[4]
                  cap_par == last'.args[5]
                  user_cap_par == last'.args[6]
              IN /\ last'.err =
                      IF Exists(id) THEN "SeriesAlreadyExists"
                      ELSE IF maturity_date <= issue_date THEN "InvalidTimestamp"
                      ELSE IF issue_price <= 0 \/ issue_price > PAR_UNIT
                           THEN "InvalidIssuePrice"
                      ELSE IF cap_par <= 0 \/ user_cap_par <= 0 \/ user_cap_par > cap_par
                           THEN "InvalidCapAmounts"
                      ELSE "Ok"
                 /\ last'.err # "Ok" => series' = series
                 /\ last'.err = "Ok" =>
                      /\ series'[id] =
                            [ series_id |-> id, issue_date |-> issue_date,
                              maturity_date |-> maturity_date, par_unit |-> PAR_UNIT,
                              issue_price |-> issue_price, cap_par |-> cap_par,
                              minted_par |-> 0, user_cap_par |-> user_cap_par,
                              status |-> "Upcoming", total_subscriptions_collected |-> 0 ]
                      /\ \A s \in SeriesIds \ {id} : series'[s] = series[s]
        /\ \A s \in SeriesIds :
              series'[s] # NoSeries =>
                 /\ series'[s].issue_date < series'[s].maturity_date
                 /\ 0 < series'[s].issue_price /\ series'[s].issue_price <= PAR_UNIT
                 /\ 0 < series'[s].user_cap_par
                 /\ series'[s].user_cap_par <= series'[s].cap_par
      ]_vars

\* create_series with valid parameters has just been refused because the id
\* is taken by a series stored with other parameters, which has subscriptions.
C18_Witness ==
    /\ last.op = "create_series" /\ last.err = "SeriesAlreadyExists"
    /\ last.args[3] > last.args[2]
    /\ last.args[4] > 0 /\ last.args[4] <= PAR_UNIT
    /\ last.args[5] > 0 /\ last.args[6] > 0 /\ last.args[6] <= last.args[5]
    /\ series[last.args[1]].issue_price # last.args[4]
    /\ series[last.args[1]].minted_par > 0

\* Quantity a subscription of pay_amount buys at the current price of series s
MintedFor(s, pay_amount) ==
    FloorDiv(pay_amount * PAR_UNIT, calculate_current_price(series[s], now))

\* C19 -- subscribe is status-gated with a fixed error precedence:
\* InvalidAmount if pay_amount <= 0, else SeriesNotFound if the series is
\* absent, else SeriesNotActive if its status is not Active, else
\* ExceedsSeriesCap if minted_par + minted > cap_par, else ExceedsUserCap if the
\* holder's subscribed_par + minted > user_cap_par; and subscribe mints no
\* bills on a series whose status is not Active.
C19_SubscribePrecedence ==
    [][ last'.op = "subscribe" =>
          LET u == last'.args[1]
              s == last'.args[2]
              a == last'.args[3]
          IN /\ IF a <= 0 THEN last'.err = "InvalidAmount"
                ELSE IF ~Exists(s) THEN last'.err = "SeriesNotFound"
                ELSE IF series[s].status # "Active" THEN last'.err = "SeriesNotActive"
                ELSE IF series[s].minted_par + MintedFor(s, a) > series[s].cap_par
                     THEN last'.err = "ExceedsSeriesCap"
                ELSE IF user_pos[<<s, u>>] + MintedFor(s, a) > series[s].user_cap_par
                     THEN last'.err = "ExceedsUserCap"
                ELSE last'.err \in {"Ok", "HostError"}
             /\ (~Exists(s) \/ series[s].status # "Active") =>
                   (balances' = balances /\ ledger_minted' = ledger_minted)
      ]_vars

\* subscribe has just been refused with ExceedsSeriesCap on a request that
\* would have passed the holder's user cap as well.
C19_Witness ==
    /\ last.op = "subscribe" /\ last.err = "ExceedsSeriesCap"
    /\ user_pos[<<last.args[2], last.args[1]>>] + MintedFor(last.args[2], last.args[3])
          > series[last.args[2]].user_cap_par

\* C20 (as stated) -- once minted_par equals cap_par, every later subscribe
\* with a positive pay_amount fails with ExceedsSeriesCap and changes nothing.
C20_CapFull_AsStated ==
    [][ \A s \in SeriesIds :
          (last'.op = "subscribe" /\ last'.args[2] = s /\ last'.args[3] > 0
              /\ Exists(s) /\ series[s].minted_par = series[s].cap_par) =>
            (last'.err = "ExceedsSeriesCap" /\ UNCHANGED contractState)
      ]_vars

\* C20 -- once minted_par equals cap_par it stays equal, and every later
\* subscribe with a positive pay_amount on the unpaused vault fails and changes
\* nothing: with SeriesNotActive once the series is Matured; on the Active
\* series with InvalidAmount when pay_amount * PAR_UNIT, or minted_par plus the
\* quantity that product buys at the current price, is beyond the i128 range,
\* and with ExceedsSeriesCap otherwise.
C20_CapFull ==
    [][ \A s \in SeriesIds :
          (Exists(s) /\ series[s].minted_par = series[s].cap_par) =>
            /\ series'[s].minted_par = series'[s].cap_par
            /\ (last'.op = "subscribe" /\ last'.args[2] = s /\ last'.args[3] > 0
                  /\ ~vault_paused) =>
                  LET product == last'.args[3] * PAR_UNIT
                      quantity == TruncDiv(product, calculate_current_price(series[s], now))
                  IN /\ last'.err =
                          IF series[s].status # "Active" THEN "SeriesNotActive"
                          ELSE IF ~FitsI128(product) THEN "InvalidAmount"
                          ELSE IF ~FitsI128(series[s].minted_par + quantity)
                          THEN "InvalidAmount"
                          ELSE "ExceedsSeriesCap"
                     /\ UNCHANGED contractState
      ]_vars

\* subscribe by a holder with no subscription yet has just been refused with
\* ExceedsSeriesCap on a series minted to its cap.
C20_Witness ==
    /\ last.op = "subscribe" /\ last.err = "ExceedsSeriesCap" /\ last.args[3] > 0
    /\ series[last.args[2]].minted_par = series[last.args[2]].cap_par
    /\ user_pos[<<last.args[2], last.args[1]>>] = 0

\* C21 -- Loan-to-value limit: calculate_max_cash(collateral, mark_price,
\* haircut) equals
\*   floor(floor(collateral * mark_price / 10,000,000) * (10,000 - haircut) / 10,000)
\* (collateral 100 at price 1.0 with haircut 300 gives 97).
C21_MaxCash ==
    last.op = "calculate_max_cash" =>
        /\ last.err = "Some"
        /\ last.args[4] =
              FloorDiv(FloorDiv(last.args[1] * last.args[2], 10000000)
                          * (BASIS_POINTS - last.args[3]), BASIS_POINTS)

\* C22 -- Every repo position has deadline <= the maturity_time of its series:
\* open_repo on an existing series fails with InvalidDeadline whenever
\* deadline > series.maturity_time, after the InvalidAmount check on
\* non-positive collateral or cash and before the ExceedsMaxCash check.
C22_DeadlineBound ==
    /\ \A i \in DOMAIN positions :
          /\ Exists(positions[i].series_id)
          /\ positions[i].deadline <= series[positions[i].series_id].maturity_date
    /\ last.op = "open_repo" =>
          LET series_id == last.args[2]
              collateral_par == last.args[3]
              desired_cash_out == last.args[4]
              deadline == last.args[5]
          IN /\ (collateral_par <= 0 \/ desired_cash_out <= 0)
                    => last.err = "InvalidAmount"
             /\ ( /\ collateral_par > 0
                  /\ desired_cash_out > 0
                  /\ Exists(series_id)
                  /\ deadline > series[series_id].maturity_date )
                    => last.err = "InvalidDeadline"

\* Price of the position's series at the time the position was opened
MarkPriceAtOpen(ser, p) == calculate_current_price(ser[p.series_id], p.start_time)

\* C23 -- The Repo Market's configured haircut and spread are within 0..10,000
\* basis points in every reachable state, so that for every position max_cash
\* (at the mark price of its opening) is non-negative and no larger than the
\* collateral value, and repurchase_amount >= cash_disbursed.
C23_ConfigRange ==
    /\ haircut_bps \in 0..BASIS_POINTS
    /\ spread_bps \in 0..BASIS_POINTS
    /\ \A i \in DOMAIN positions :
          LET p == positions[i]
              collateral_value ==
                  TruncDiv(p.collateral_par * MarkPriceAtOpen(series, p), PAR_UNIT)
              max_cash ==
                  calculate_max_cash(p.collateral_par, MarkPriceAtOpen(series, p),
                                     haircut_bps).v
          IN /\ 0 <= max_cash
             /\ max_cash <= collateral_value
             /\ p.repurchase_amount >= p.cash_out

\* Totals of the series that exist
SeriesCollected(ser) ==
    SumFn([s \in SeriesIds |->
              IF ser[s] = NoSeries THEN 0 ELSE ser[s].total_subscriptions_collected],
          SeriesIds)
SeriesMinted(ser) ==
    SumFn([s \in SeriesIds |-> IF ser[s] = NoSeries THEN 0 ELSE ser[s].minted_par],
          SeriesIds)

\* C24 -- Accounting consistency: the protocol's total_cash_collected equals the
\* sum over all series of series.total_cash_collected and total_liability_minted
\* the sum over all series of series.minted; the record is changed only by a
\* successful subscribe, so total_lent, total_repo_revenue and total_defaults
\* stay at their initial 0.
C24_AccountingConsistency ==
    /\ [] /\ accounting.total_subscriptions_collected = SeriesCollected(series)
          /\ accounting.total_par_minted = SeriesMinted(series)
          /\ accounting.total_lent = 0
          /\ accounting.total_repo_revenue = 0
          /\ accounting.total_defaults = 0
    /\ [][ accounting' # accounting => (last'.op = "subscribe" /\ last'.err = "Ok") ]_vars

\* Both series have been subscribed to, the second one just now, and a loan
\* against the first has been closed
C24_Witness ==
    /\ last.op = "subscribe" /\ last.err = "Ok" /\ last.args[2] = 2
    /\ series[1] # NoSeries /\ series[1].minted_par > 0
    /\ series[2].minted_par > 0

C26_MonotoneCounters ==
    [][ \A s \in SeriesIds :
          /\ Exists(s) =>
                /\ Exists(s)'
                /\ series'[s].minted_par >= series[s].minted_par
                /\ series'[s].total_subscriptions_collected
                      >= series[s].total_subscriptions_collected
          /\ \A u \in Users : user_pos'[<<s, u>>] >= user_pos[<<s, u>>]
      ]_vars

\* u1 has redeemed and has just transferred a bill away, and is still recorded
\* with more subscribed than it holds
C26_Witness ==
    /\ last.op = "transfer" /\ last.err = "Ok"
    /\ last.args[2] = "u1" /\ last.args[3] = "u2"
    /\ redeemed[1] > 0
    /\ user_pos[<<1, "u1">>] > balance_of(balances, 1, "u1")
    /\ series[1].minted_par > TotalBalance(balances, 1)

\* The effects of a successful subscribe by holder on series s, with the cash
\* credited to the account recipient
SubscribeEffects(recipient) ==
    \A holder \in Users, s \in SeriesIds :
        ( /\ last'.op = "subscribe" /\ last'.err = "Ok"
          /\ last'.args[1] = holder /\ last'.args[2] = s ) =>
            LET pay_amount == last'.args[3]
                m == FloorDiv(pay_amount * PAR_UNIT,
                              calculate_current_price(series[s], now))
            IN /\ cash' = [cash EXCEPT ![holder] = @ - pay_amount,
                                       ![recipient] = @ + pay_amount]
               /\ balance_of(balances', s, holder) = balance_of(balances, s, holder) + m
               /\ \A k \in (DOMAIN balances \cup DOMAIN balances') \ {Key(s, holder)} :
                     /\ k \in DOMAIN balances /\ k \in DOMAIN balances'
                     /\ balances'[k] = balances[k]
               /\ series' = [series EXCEPT
                     ![s].minted_par = @ + m,
                     ![s].total_subscriptions_collected = @ + pay_amount]
               /\ user_pos' = [user_pos EXCEPT ![<<s, holder>>] = @ + m]
               /\ accounting' = [accounting EXCEPT
                     !.total_subscriptions_collected = @ + pay_amount,
                     !.total_par_minted = @ + m]
               /\ UNCHANGED << now, operators, repoVars >>

\* C27 -- Successful subscribe effects: a successful subscribe(holder, series,
\* pay_amount) at time t moves exactly pay_amount of cash from the holder to the
\* protocol treasury, increases the holder's bill balance by exactly
\* m = floor(pay_amount * par_unit / price(t)), and increases series.minted by m,
\* series.total_cash_collected by pay_amount, the holder's subscribed_quantity
\* by m, and the accounting totals by pay_amount and m; nothing else changes.
C27_SubscribeEffects == [][SubscribeEffects(TREASURY)]_vars

\* Every balance record but those under the keys K is the same before and after
OtherBalancesUnchanged(K) ==
    \A k \in (DOMAIN balances \cup DOMAIN balances') \ K :
        /\ k \in DOMAIN balances /\ k \in DOMAIN balances'
        /\ balances'[k] = balances[k]

\* C31 -- Ledger transfer and burn semantics: transfer(series, from, to, amount)
\* and burn(series, from, amount) fail with InvalidAmount if amount <= 0 and with
\* InsufficientBalance if from's balance < amount (including when from has no
\* record), changing nothing; a successful transfer between distinct parties
\* decreases from's balance by exactly amount and increases to's by exactly
\* amount, and a successful burn decreases from's balance by exactly amount;
\* balances of other holders and other series are unchanged.
C31_TransferBurnSemantics ==
    [][ /\ last'.op = "transfer" =>
              LET s == last'.args[1]
                  from == last'.args[2]
                  to == last'.args[3]
                  amount == last'.args[4]
              IN /\ amount <= 0 => (last'.err = "InvalidAmount" /\ balances' = balances)
                 /\ (amount > 0 /\ balance_of(balances, s, from) < amount) =>
                        (last'.err = "InsufficientBalance" /\ balances' = balances)
                 /\ (last'.err = "Ok" /\ from # to) =>
                        /\ balance_of(balances', s, from)
                              = balance_of(balances, s, from) - amount
                        /\ balance_of(balances', s, to)
                              = balance_of(balances, s, to) + amount
                        /\ OtherBalancesUnchanged({Key(s, from), Key(s, to)})
        /\ last'.op = "burn" =>
              LET s == last'.args[2]
                  from == last'.args[3]
                  amount == last'.args[4]
              IN /\ amount <= 0 => (last'.err = "InvalidAmount" /\ balances' = balances)
                 /\ (amount > 0 /\ balance_of(balances, s, from) < amount) =>
                        (last'.err = "InsufficientBalance" /\ balances' = balances)
                 /\ last'.err = "Ok" =>
                        /\ balance_of(balances', s, from)
                              = balance_of(balances, s, from) - amount
                        /\ OtherBalancesUnchanged({Key(s, from)})
      ]_vars

\* u1 has just passed a bill of series 1 on to u2, who has none of series 2,
\* while u1 holds bills of series 2 as well
C31_Witness ==
    /\ last.op = "transfer" /\ last.err = "Ok"
    /\ last.args = <<1, "u1", "u2", 1>>
    /\ balance_of(balances, 1, "u2") >= 1
    /\ balance_of(balances, 2, "u1") >= 1
    /\ balance_of(balances, 2, "u2") = 0

\* C32 -- No stored zero balances: in every reachable state every balance
\* record present in the Bill Ledger holds a strictly positive amount (a record
\* is removed as soon as burn or transfer brings it to zero), and balance_of
\* returns 0 exactly for holders with no record.
C32_NoZeroBalances ==
    /\ \A k \in DOMAIN balances : balances[k] > 0
    /\ \A s \in SeriesIds, h \in Holders :
          (balance_of(balances, s, h) = 0) <=> ~HasBalance(balances, s, h)

\* u1's whole balance of series 1 has just been burned and its record is gone,
\* while u2 still holds what u1 had transferred to it
C32_Witness ==
    /\ last.op = "burn" /\ last.err = "Ok"
    /\ last.args[2] = 1 /\ last.args[3] = "u1"
    /\ ~HasBalance(balances, 1, "u1")
    /\ HasBalance(balances, 1, "u2")
    /\ ledger_calls >= 3

\* The quantity a payment of pay_amount buys of series s at time t
MintedAt(s, pay_amount, t) ==
    calculate_minted_par(pay_amount, calculate_current_price(series[s], t)).v

\* C33 -- Later subscribers get no more bills: for a fixed series and a fixed
\* pay_amount, the quantity minted by a successful subscribe at time t2 is less
\* than or equal to the quantity minted at any earlier time t1 <= t2, and every
\* successful subscribe mints at least pay_amount bills
\* (minted >= pay_amount >= 1).
C33_LaterNoMore ==
    [][ \A s \in SeriesIds :
          (last'.op = "subscribe" /\ last'.err = "Ok" /\ last'.args[2] = s) =>
            LET pay_amount == last'.args[3]
                minted == series'[s].minted_par - series[s].minted_par
            IN /\ minted >= pay_amount
               /\ pay_amount >= 1
               /\ minted = balance_of(balances', s, last'.args[1])
                              - balance_of(balances, s, last'.args[1])
               /\ \A t1 \in 0..now : MintedAt(s, pay_amount, t1) >= minted
               /\ \A t2 \in now..(MaxTime + 1) : MintedAt(s, pay_amount, t2) <= minted
      ]_vars

\* A payment of 1 has just bought one bill of a series on which the same
\* payment bought two at its issue
C33_Witness ==
    /\ last.op = "subscribe" /\ last.err = "Ok" /\ last.args[3] = 1
    /\ now > 0
    /\ MintedAt(last.args[2], 1, now) = 1
    /\ MintedAt(last.args[2], 1, 0) = 2
    /\ series[last.args[2]].minted_par = 3

\* C34 -- Subscription and redemption windows are disjoint: subscribe fails with
\* SeriesNotActive for a series that is not yet activated or already matured,
\* so there is no reachable state and time at which both a subscribe and a
\* redeem on the same series can succeed; in particular no subscribe succeeds
\* once current time >= the series' maturity_time.
C34_DisjointWindows ==
    \A s \in SeriesIds :
        /\ ( /\ last.op = "subscribe" /\ last.args[2] = s /\ last.args[3] > 0
             /\ Exists(s) /\ series[s].status # "Active" )
               => last.err = "SeriesNotActive"
        /\ ~ /\ \E u \in Users, a \in PayAmounts : subscribe_result(u, s, a) = "Ok"
             /\ \E u \in Users, a \in RedeemAmounts : redeem_result(u, s, a) = "Ok"
        /\ (last.op = "subscribe" /\ last.args[2] = s /\ last.err = "Ok")
               => now < series[s].maturity_date

\* C36 -- Liability dominates cash: in every reachable state
\* total_liability_minted >= total_cash_collected (and for every series
\* minted >= total_cash_collected), hence calculate_protocol_profit
\* = (total_cash_collected + total_repo_revenue) - total_liability_minted is
\* never positive in this core.
C36_LiabilityDominates ==
    /\ accounting.total_par_minted >= accounting.total_subscriptions_collected
    /\ \A s \in SeriesIds :
          Exists(s) => series[s].minted_par >= series[s].total_subscriptions_collected
    /\ calculate_protocol_profit(accounting)
          = (accounting.total_subscriptions_collected + accounting.total_repo_revenue)
              - accounting.total_par_minted
    /\ calculate_protocol_profit(accounting) <= 0

\* Both series have taken cash, the first below par, and the profit is negative
C36_Witness ==
    /\ series[1] # NoSeries /\ series[2] # NoSeries
    /\ series[1].total_subscriptions_collected > 0
    /\ series[1].minted_par > series[1].total_subscriptions_collected
    /\ series[2].total_subscriptions_collected > 0
    /\ calculate_protocol_profit(accounting) < 0
    /\ redeemed[1] > 0

\* C37 -- Redeemability: at any time >= maturity_time, a redeem by a holder of a
\* positive bill_amount not exceeding the holder's bill balance succeeds, i.e.
\* the protocol funds that redeem pays from are always sufficient to pay par
\* for every outstanding bill of a matured series after any sequence of
\* subscribe, redeem and repo operations.
C37_Redeemability ==
    \A s \in SeriesIds, u \in Users :
        (Exists(s) /\ now >= series[s].maturity_date) =>
            \A a \in 1..balance_of(balances, s, u) : redeem_result(u, s, a) = "Ok"

\* C38: while the vault is paused no vault call succeeds and none changes a
\* series record, a subscription record, a bill balance or an accounting
\* total; while the repo market is paused no position is created or changes
\* status.
VaultOps == {"create_series", "activate_series", "mature_series", "subscribe", "redeem"}

C38_PauseGating ==
    [][ /\ (vault_paused /\ last'.op \in VaultOps)
              => /\ last'.err # "Ok"
                 /\ UNCHANGED << series, user_pos, balances, accounting >>
        /\ repo_paused => UNCHANGED << positions, position_counter >> ]_vars

\* C39: in BingoSeries every series keeps total_subscribed <= max_cap and
\* every stored user position keeps shares <= per_user_cap; a subscribe that
\* would break either bound, or that arrives at or after maturity_time or on
\* a series that is not Active, aborts and changes no state.
MvpCapsHold ==
    /\ \A s \in MvpSeriesIds :
          mvp_series[s] # NoSeries => mvp_series[s].total_subscribed <= mvp_series[s].max_cap
    /\ \A k \in DOMAIN mvp_positions :
          mvp_positions[k].shares <= mvp_series[k[1]].per_user_cap

\* The index of a series and the shares a payment buys, over the integers
MvpIndex(s) ==
    IF now >= s.maturity_time THEN MVP_SCALE
    ELSE s.subscription_price
           + TruncDiv((s.par_value - s.subscription_price) * (now - s.issue_time),
                      s.maturity_time - s.issue_time)

MvpHeld(series_id, user) ==
    IF <<series_id, user>> \in DOMAIN mvp_positions
    THEN mvp_positions[<<series_id, user>>].shares ELSE 0

MvpSubscribeMustAbort(series_id, usdc_amount, user) ==
    LET s == mvp_series[series_id]
        shares == TruncDiv(usdc_amount * MVP_SCALE, MvpIndex(s))
    IN \/ s.status # "Active"
       \/ now >= s.maturity_time
       \/ s.total_subscribed + shares > s.max_cap
       \/ MvpHeld(series_id, user) + shares > s.per_user_cap

C39_SeriesCaps ==
    /\ []MvpCapsHold
    /\ [][ (/\ last'.op = "mvp_subscribe"
            /\ mvp_series[last'.args[1]] # NoSeries
            /\ MvpIndex(mvp_series[last'.args[1]]) # 0
            /\ MvpSubscribeMustAbort(last'.args[1], last'.args[2], last'.args[3]))
           => (last'.err # "Ok" /\ UNCHANGED << mvpVars, now >>) ]_vars

\* a subscribe was refused for the series cap while a user sits at the user cap
C39_Witness ==
    /\ last.op = "mvp_subscribe"
    /\ last.err = "Exceeds max cap"
    /\ \E k \in DOMAIN mvp_positions :
          /\ mvp_positions[k].shares = mvp_series[k[1]].per_user_cap
          /\ mvp_series[k[1]].total_subscribed + 1 = mvp_series[k[1]].max_cap

\* C40: in BingoSeries subscribe and redeem succeed only for a user whose KYC
\* flag is true, the flag being what the latest verify_kyc or revoke_kyc call
\* for that user left; a successful redeem pays shares * par_value / SCALE and
\* removes the position, which never comes back, so each user is paid at most
\* once per series.
MvpRedeemedOnce ==
    \A k \in MvpSeriesIds \X Users :
        /\ mvp_redeems[k] <= 1
        /\ mvp_redeems[k] = 1 => k \notin DOMAIN mvp_positions

MvpKycGate ==
    /\ (last'.op = "mvp_subscribe" /\ last'.err = "Ok") => mvp_kyc[last'.args[3]]
    /\ (last'.op = "mvp_redeem" /\ last'.err = "Ok") => mvp_kyc[last'.args[2]]
    /\ last'.op = "verify_kyc" => mvp_kyc' = [mvp_kyc EXCEPT ![last'.args[1]] = TRUE]
    /\ last'.op = "revoke_kyc" => mvp_kyc' = [mvp_kyc EXCEPT ![last'.args[1]] = FALSE]
    /\ last'.op \notin {"verify_kyc", "revoke_kyc"} => mvp_kyc' = mvp_kyc

MvpRedeemPays ==
    (last'.op = "mvp_redeem" /\ last'.err = "Ok")
        => LET series_id == last'.args[1]
               user == last'.args[2]
               paid == TruncDiv(mvp_positions[<<series_id, user>>].shares
                                   * mvp_series[series_id].par_value, MVP_SCALE)
           IN /\ <<series_id, user>> \in DOMAIN mvp_positions
              /\ <<series_id, user>> \notin DOMAIN mvp_positions'
              /\ mvp_cash'[user] = mvp_cash[user] + paid
              /\ mvp_cash'[MVP_CONTRACT] = mvp_cash[MVP_CONTRACT] - paid

C40_KycAndSingleRedemption ==
    /\ []MvpRedeemedOnce
    /\ [][MvpKycGate /\ MvpRedeemPays]_vars

\* a user who was paid for a position asks again and is refused
C40_Witness ==
    /\ last.op = "mvp_redeem"
    /\ last.err = "No position found"
    /\ mvp_redeems[<<last.args[1], last.args[2]>>] = 1
    /\ mvp_cash[last.args[2]] > MvpInitialCash[last.args[2]]

====
